---- MODULE Spec2Model ----
(***************************************************************************)
(* State-machine model of UndistributedOnPolicyRLEngine                    *)
(* (src/onpolicy_sync/engine.py): the staged training loop of              *)
(* run_pipeline / train, the per-mini-batch update, checkpoint_save /      *)
(* checkpoint_load and the hand-over of checkpoints to the validator.      *)
(*                                                                         *)
(* One behaviour holds two engine objects, one after the other: run 1 is   *)
(* a training run started from scratch; run 2 is a new engine constructed  *)
(* with the same configuration whose run_pipeline is given one of the      *)
(* checkpoint files written by run 1.                                      *)
(***************************************************************************)
EXTENDS Integers, Sequences, FiniteSets, TLC

\* ------------------------------------------------------------------ bounds
\* Number of stages of the training pipeline.
NumStages == 2
\* Largest requested max_stage_steps of a stage in the pipeline runs.
MaxStageSteps == 3
\* Largest number of dones reported over one engine's run.
MaxEpisodes == 1
\* Largest number of losses that are no tensor over one engine's run.
MaxWarnings == 1
\* Number of states of the modelled random generator.
RngMod == 3
\* Number of batches the off-policy data iterator yields before StopIteration.
DataLen == 1
\* Largest operands of the stage-budget computation (BudgetSpec).
MaxBudget == 12
MaxHorizon == 4
MaxWorkers == 4

\* Largest number of commands the parent puts on the validator's queue.
MaxCommands == 3
\* Engines started on one output directory, and the last clock reading.
NumEngines == 2
MaxClock == 3
\* Messages on the metrics queue at a call, largest count, polls followed.
MaxQueue == 2
MaxCount == 2
MaxPolls == 5
\* Tokens of an experiment name.
MaxName == 2
\* copies of one checkpoint file name found under the working directory
MaxMatches == 2
\* largest step_count stored in a checkpoint dictionary given to checkpoint_load
MaxCkptSteps == 2
\* checkpoint_load calls on one engine
MaxLoads == 2
\* collect_rollout_step calls in the budget of a stage with pausing workers
MaxCollects == 2
\* checkpoint files in the directory of a run
MaxFiles == 7
\* largest skip_checkpoints
MaxSkip == 3
\* batches one off-policy data iterator yields
MaxData == 2
\* keys of the off-policy memory dictionary
MaxKeys == 2
\* off-policy losses of a stage
NumLosses == 2
\* off-policy updates in one stage
MaxOffpolicyUpdates == 3

\* Python's None, for the optional integer fields.
None == -1

\* Python's None, for the optional string fields.
NoneStr == "None"

VARIABLES
    config,                        \* the experiment configuration (immutable)
    run,                           \* 1: run from scratch, 2: resumed run
    pc,                            \* position of the engine in run_pipeline
    stage_num,                     \* position of iterator_starting_at
    total_updates, pipeline_stage, rollout_count, backprop_count,
    step_count, total_steps, episode_count, off_policy_epochs,
    last_save, last_metrics_accumulate_steps, local_start_time_str, seed,
    num_rollouts, max_stage_steps, steps_in_rollout,
    early_stopping_criterion_met,  \* local of train()
    step,                          \* loop index of `for step in range(...)`
    mb,                            \* mini-batches done in the current update()
    offpolicy_data_iterator,       \* None, or batches left in the iterator
    rng,                           \* state of the `random` module
    set_seeds_arg,                 \* last list given to vector_tasks.set_seeds
    metrics_out_queue,             \* vector_tasks.metrics_out_queue
    write_to_eval,                 \* command queue to the validator
    last_start_time_string,        \* content of .last_start_time_string
    ckpt,                          \* the checkpoint file handed to run 2
    saved_paths,                   \* paths returned by checkpoint_save, in order
    upd,                           \* bookkeeping of the current update() call
    warnings,                      \* warnings issued by warnings.warn
    trace, rtrace                  \* counter progressions of run 1 and run 2

\* Exceptions and teardown of the training engine.
VARIABLES
    exc,                           \* exception raised inside run_pipeline
    log_writer,                    \* self.log_writer is not None
    is_closed,                     \* self._is_closed
    close_log,                     \* the close operations attempted by close()
    checkpoint_path                \* path returned by get_checkpoint_path

\* The validator process (process_checkpoints of a valid-mode engine).
VARIABLES
    v_pc,                          \* position in process_checkpoints
    render_video,                  \* machine_params["render_video"]
    read_from_parent,              \* command queue, written by the parent
    write_to_parent,               \* metrics queue, read by the parent
    command, data,                 \* locals: the command last read
    new_data,                      \* local: a command was read and not acted on
    v_exc,                         \* exception that ended process_checkpoints
    v_is_closed,                   \* the validator engine's _is_closed
    sent,                          \* every command the parent has put
    taken,                         \* number of commands got off the queue
    acted                          \* positions in sent of the commands acted on

validator_vars == <<v_pc, render_video, read_from_parent, write_to_parent,
                    command, data, new_data, v_exc, v_is_closed, sent, taken,
                    acted>>

\* Engines that start on one output directory, and the lock file and the
\* file .last_start_time_string they share.
VARIABLES
    clock,                         \* time.time(), in seconds
    lock_holder,                   \* engine inside `with FileLock`, or None
    last_start_time_file,          \* content of the file, None when empty
    l_pc,                          \* per engine: position in the function
    last_start_time_string_list,   \* per engine: what it read from the file
    candidate_str,                 \* per engine: local candidate_str
    start_time_strs                \* per engine: its local_start_time_str

lock_vars == <<clock, lock_holder, last_start_time_file, l_pc,
               last_start_time_string_list, candidate_str, start_time_strs>>

\* One step of the worker pool with workers that pause, and what the rollout
\* storage is handed.  A worker is named by its number; what belongs to a
\* worker (an observation, an action, a reward ...) carries that number.
VARIABLES
    mode,                          \* "train" or "valid"
    num_processes,                 \* number of workers of the pool
    p_pc,                          \* "init", "initialized" or "stepped"
    actions_sent,                  \* number of actions of the last step call
    vector_tasks,                  \* the unpaused workers, in pool order
    rollouts_procs,                \* the workers the storage has a column for
    before,                        \* vector_tasks when the step was taken
    observations,                  \* observations returned by the step
    step_dones,                    \* done flags returned by the step
    sum_dones,                     \* what the step added to episode_count
    npaused, keep, batch,          \* results of remove_paused_and_batch
    pause_calls,                   \* arguments of the pause_at calls, in order
    inserted                       \* arguments of rollouts.insert, or <<>>

pause_vars == <<mode, num_processes, p_pc, actions_sent, vector_tasks,
                rollouts_procs, before, observations,
                step_dones, sum_dones, npaused, keep, batch, pause_calls, inserted>>

\* One call of accumulate_data_from_metrics_out_queue or of
\* process_eval_metrics on a queue no producer writes to any more.
VARIABLES
    m_fn,                          \* "accumulate" or "process_eval"
    m_pc,                          \* "idle", "loop", "returned" or "raised"
    count,                         \* the parameter count, as it is counted down
    m_queue,                       \* vector_tasks.metrics_out_queue
    m_queue0,                      \* the queue when the call was made
    polls,                         \* number of get() calls made
    train_metrics, losses, teachers,   \* locals of accumulate_data_...
    valid_test_metrics,            \* local: messages that gave valid/test entries
    unknown,                       \* messages answered by the warning
    train_scalars,                 \* records added to self.scalars
    unused, used                   \* locals of process_eval_metrics

metrics_vars == <<m_fn, m_pc, count, m_queue, m_queue0, polls, train_metrics,
                  losses, teachers, valid_test_metrics, unknown,
                  train_scalars, unused, used>>

\* A checkpoint file name, as checkpoint_save builds it and as its readers
\* take it apart.  A string is a sequence of tokens [k, v]; a path is a
\* sequence of components, each a string.
VARIABLES
    n_pc,                          \* "idle", "input", "saved" or "parsed"
    experiment_name,               \* self.experiment_name
    name_fields,                   \* run-id, stage, steps and seed at the save
    model_path,                    \* path returned by checkpoint_save
    parsed_steps,                  \* result of step_from_checkpoint
    checkpoint_start_time,         \* local of get_checkpoint_path
    expected_path,                 \* local of get_checkpoint_path
    files_folder                   \* directory get_checkpoint_files lists

name_vars == <<n_pc, experiment_name, name_fields, model_path, parsed_steps,
               checkpoint_start_time, expected_path, files_folder>>

\* An engine of any mode that loads checkpoints (checkpoint_load).
VARIABLES
    loads,                         \* number of checkpoint_load calls so far
    self_before,                   \* fields of the engine before the last call
    self_after,                    \* fields of the engine now
    loaded_ckpt                    \* dictionary given to the last call

load_vars == <<loads, self_before, self_after, loaded_ckpt>>

\* The scene advances of the training loop (train, lines 1059-1063).
VARIABLES
    next_task_calls                \* <<pipeline_stage, rollout_count>> at each
                                   \* next_task(force_advance_scene=True)

scene_vars == <<next_task_calls>>

\* The off-policy memory (setup_stage and offpolicy_update).
VARIABLES
    o_pc,                          \* "constructed", or "train" after setup_stage
    data_len,                      \* batches an iterator of the builder yields
    data_iterator,                 \* batches left in the iterator, or None
    offpolicy_memory,              \* keys of self._offpolicy_memory
    loss_calls,                    \* memory given to and returned by each
                                   \* loss.loss call of the last update
    built,                         \* the last update called the builder
    o_updates,                     \* updates in this stage
    o_stages                       \* setup_stage calls

offpolicy_vars == <<o_pc, data_len, data_iterator, offpolicy_memory,
                    loss_calls, built, o_updates, o_stages>>

\* A call of get_checkpoint_files.
VARIABLES
    listing                        \* arguments, directory and result of the call

files_vars == <<listing>>

\* get_checkpoint_files has not been called.
FilesIdle == listing = [pc |-> "idle"]

\* The resolution of the stage hyperparameters by run_pipeline: the values
\* of a required field (num_steps) and of an optional one
\* (early_stopping_criterion) at the three layers, and the loop's progress.
VARIABLES stage_setup

setup_vars == <<stage_setup>>

SetupIdle == stage_setup = [pc |-> "idle"]

\* The number of calls of close() made after a run_pipeline has returned
\* (directly, by __exit__ or by __del__), over the engines constructed.
VARIABLES later_closes

closes_vars == <<later_closes>>

ClosesIdle == later_closes = 0

\* Two constructions of an engine from the same arguments except the mode
\* string: the arguments and the engines constructed so far.
VARIABLES construction

ctor_vars == <<construction>>

CtorIdle == construction = [pc |-> "idle"]

\* A validation result on its way from the validator to the early-stopping
\* criterion of the trainer: the render_video entries of the two
\* machine_params, the message posted, and what the drain made of it.
VARIABLES drain

drain_vars == <<drain>>

DrainIdle == drain = [pc |-> "idle"]

\* The variables outside the training engine.
aux_vars == <<validator_vars, lock_vars, pause_vars, metrics_vars, name_vars,
              load_vars, scene_vars, offpolicy_vars,
              files_vars,
              setup_vars,
              closes_vars,
              ctor_vars,
              drain_vars>>

teardown_vars == <<exc, log_writer, is_closed, close_log, checkpoint_path>>

engine_vars == <<config, run, pc, stage_num, total_updates, pipeline_stage,
          rollout_count, backprop_count, step_count, total_steps,
          episode_count, off_policy_epochs, last_save,
          last_metrics_accumulate_steps, local_start_time_str, seed,
          num_rollouts, max_stage_steps, steps_in_rollout,
          early_stopping_criterion_met, step, mb, offpolicy_data_iterator,
          rng, set_seeds_arg, metrics_out_queue, write_to_eval,
          last_start_time_string, ckpt, saved_paths, upd, warnings,
          trace, rtrace, teardown_vars>>

vars == <<engine_vars, aux_vars>>

\* What the actions of one part leave unchanged.
not_validator_vars == <<engine_vars, lock_vars, pause_vars, metrics_vars,
                        name_vars,
                   load_vars, scene_vars,
                   offpolicy_vars,
                   files_vars,
                   setup_vars,
                   closes_vars,
                   ctor_vars,
                   drain_vars>>
not_lock_vars == <<engine_vars, validator_vars, pause_vars, metrics_vars,
                   name_vars,
                   load_vars, scene_vars,
                   offpolicy_vars,
                   files_vars,
                   setup_vars,
                   closes_vars,
                   ctor_vars,
                   drain_vars>>
not_pause_vars == <<engine_vars, validator_vars, lock_vars, metrics_vars,
                    name_vars,
                   load_vars, scene_vars,
                   offpolicy_vars,
                   files_vars,
                   setup_vars,
                   closes_vars,
                   ctor_vars,
                   drain_vars>>
not_metrics_vars == <<engine_vars, validator_vars, lock_vars, pause_vars,
                      name_vars,
                   load_vars, scene_vars,
                   offpolicy_vars,
                   files_vars,
                   setup_vars,
                   closes_vars,
                   ctor_vars,
                   drain_vars>>
not_name_vars == <<engine_vars, validator_vars, lock_vars, pause_vars,
                   metrics_vars,
                   load_vars, scene_vars,
                   offpolicy_vars,
                   files_vars,
                   setup_vars,
                   closes_vars,
                   ctor_vars,
                   drain_vars>>

not_load_vars == <<engine_vars, validator_vars, lock_vars, pause_vars,
                   metrics_vars, name_vars, scene_vars,
                   offpolicy_vars,
                   files_vars,
                   setup_vars,
                   closes_vars,
                   ctor_vars,
                   drain_vars>>

not_scene_vars == <<engine_vars, validator_vars, lock_vars, pause_vars,
                    metrics_vars, name_vars, load_vars,
                   offpolicy_vars,
                   files_vars,
                   setup_vars,
                   closes_vars,
                   ctor_vars,
                   drain_vars>>

not_offpolicy_vars == <<engine_vars, validator_vars, lock_vars, pause_vars,
                        metrics_vars, name_vars, load_vars, scene_vars,
                   files_vars,
                   setup_vars,
                   closes_vars,
                   ctor_vars,
                   drain_vars>>

not_files_vars == <<engine_vars, validator_vars,
                   lock_vars,
                   pause_vars,
                   metrics_vars,
                   name_vars,
                   load_vars,
                   scene_vars,
                   offpolicy_vars,
                   setup_vars,
                   closes_vars,
                   ctor_vars,
                   drain_vars>>

not_setup_vars == <<engine_vars, validator_vars,
                   lock_vars,
                   pause_vars,
                   metrics_vars,
                   name_vars,
                   load_vars,
                   scene_vars,
                   offpolicy_vars,
                   files_vars,
                   closes_vars,
                   ctor_vars,
                   drain_vars>>

not_closes_vars == <<engine_vars, validator_vars,
                   lock_vars,
                   pause_vars,
                   metrics_vars,
                   name_vars,
                   load_vars,
                   scene_vars,
                   offpolicy_vars,
                   files_vars,
                   setup_vars,
                   ctor_vars,
                   drain_vars>>

not_ctor_vars == <<engine_vars, validator_vars,
                   lock_vars,
                   pause_vars,
                   metrics_vars,
                   name_vars,
                   load_vars,
                   scene_vars,
                   offpolicy_vars,
                   files_vars,
                   setup_vars,
                   closes_vars,
                   drain_vars>>

not_drain_vars == <<engine_vars, validator_vars,
                   lock_vars,
                   pause_vars,
                   metrics_vars,
                   name_vars,
                   load_vars,
                   scene_vars,
                   offpolicy_vars,
                   files_vars,
                   setup_vars,
                   closes_vars,
                   ctor_vars>>

\* --------------------------------------------------------- pure functions

\* setup_stage: num_rollouts = (int(max_stage_steps) // steps_in_rollout)
\*                             // num_processes
NumRolloutsNoWorkers(M, s, p) == M \div s
NumRollouts(M, s, p) == (M \div s) \div p

\* setup_stage: max_stage_steps = num_rollouts * num_processes * steps_in_rollout
RecordedMaxStageSteps(M, s, p) == NumRollouts(M, s, p) * p * s

\* The `random` module as a deterministic generator: random.seed(s) installs
\* the state that belongs to s, each random.randint advances the state and
\* returns a value that depends on the state alone.
SeedState(s) == s % RngMod
NextRng(x) == (x + 1) % RngMod

\* worker_seeds(n, None): n successive draws from the generator in state x.
RECURSIVE WorkerSeeds(_, _)
WorkerSeeds(n, x) ==
    IF n = 0 THEN <<>> ELSE <<NextRng(x)>> \o WorkerSeeds(n - 1, NextRng(x))

\* State of the generator after n draws.
RECURSIVE RngAfter(_, _)
RngAfter(n, x) == IF n = 0 THEN x ELSE RngAfter(n - 1, NextRng(x))

\* The early-stopping criterion of a stage, a deterministic function of its
\* arguments: never (threshold None), or "stop once stage_steps >= threshold".
EarlyStoppingCriterion(stage_steps, total) ==
    config.es_threshold # None /\ stage_steps >= config.es_threshold

\* ----------------------------------------------------------- configurations

\* Configurations of the pipeline runs.  Every stage takes its
\* hyperparameters from the training pipeline.
PipelineConfigs ==
    [ nprocesses : {1, 2},
      num_steps : {1, 2},
      max_stage_steps : {MaxStageSteps},
      update_repeats : {1},
      num_mini_batch : {1, 2},
      save_interval : {None, 0, 2},
      metric_accumulate_interval : {1, 2},
      es_threshold : {None, 2},
      valid_nprocesses : {0, 1},
      offpolicy : BOOLEAN,
      seed : {None, 1},
      close_raises : {{}},
      expected_exists : {FALSE},
      num_ckpts : {1},
      advance_scene_rollout_period : {None} ]

\* Configurations of the runs in which exceptions are raised: the stage
\* hyperparameters are fixed, and close_raises names the close operations
\* of close() that raise.
TeardownConfigs ==
    [ nprocesses : {1},
      num_steps : {1},
      max_stage_steps : {MaxStageSteps},
      update_repeats : {1},
      num_mini_batch : {1},
      save_interval : {2},
      metric_accumulate_interval : {1},
      es_threshold : {None},
      valid_nprocesses : {0, 1},
      offpolicy : BOOLEAN,
      seed : {None},
      close_raises : SUBSET {"vector_tasks", "eval_process", "log_writer"},
      expected_exists : {FALSE},
      num_ckpts : {0, 1},
      advance_scene_rollout_period : {None} ]
    \cup
    [ nprocesses : {1},
      num_steps : {1},
      max_stage_steps : {MaxStageSteps},
      update_repeats : {1},
      num_mini_batch : {1},
      save_interval : {2},
      metric_accumulate_interval : {1},
      es_threshold : {None},
      valid_nprocesses : {0, 1},
      offpolicy : {FALSE},
      seed : {None},
      close_raises : {{}},
      expected_exists : BOOLEAN,
      num_ckpts : 0..MaxMatches,
      advance_scene_rollout_period : {None} ]

\* Configurations of the stage-budget computation alone.
BudgetConfigs ==
    [ nprocesses : 1..MaxWorkers,
      num_steps : 1..MaxHorizon,
      max_stage_steps : 1..MaxBudget,
      update_repeats : {1},
      num_mini_batch : {1},
      save_interval : {None},
      metric_accumulate_interval : {1},
      es_threshold : {None},
      valid_nprocesses : {0},
      offpolicy : {FALSE},
      seed : {None},
      close_raises : {{}},
      expected_exists : {FALSE},
      num_ckpts : {1},
      advance_scene_rollout_period : {None} ]
    \cup
    [ nprocesses : {4},
      num_steps : {50},
      max_stage_steps : {1000},
      update_repeats : {1},
      num_mini_batch : {1},
      save_interval : {None},
      metric_accumulate_interval : {1},
      es_threshold : {None},
      valid_nprocesses : {0},
      offpolicy : {FALSE},
      seed : {None},
      close_raises : {{}},
      expected_exists : {FALSE},
      num_ckpts : {1},
      advance_scene_rollout_period : {None} ]

\* __init__: `if self.config.machine_params("valid")["nprocesses"] <= 0` no
\* validator is started, else write_to_eval and eval_process are created.
HasValidator == config.valid_nprocesses > 0

NoUpdate == [bc0 |-> 0, emitted |-> 0, opt_steps |-> 0, warned |-> 0]

\* ------------------------------------------------------------ construction

\* __init__ of a train-mode engine.
EngineInit ==
    /\ pc = "start"
    /\ stage_num = None
    /\ total_updates = 0
    /\ pipeline_stage = 0
    /\ rollout_count = 0
    /\ backprop_count = 0
    /\ step_count = 0
    /\ episode_count = 0
    /\ off_policy_epochs = None
    /\ total_steps = 0
    /\ last_metrics_accumulate_steps = 0
    /\ last_save = 0
    /\ local_start_time_str = None
    /\ seed = config.seed
    /\ num_rollouts = None
    /\ max_stage_steps = None
    /\ steps_in_rollout = None
    /\ early_stopping_criterion_met = FALSE
    /\ step = 0
    /\ mb = 0
    /\ offpolicy_data_iterator = None
    /\ rng = IF config.seed # None THEN SeedState(config.seed) ELSE None
    /\ set_seeds_arg = <<>>
    /\ metrics_out_queue = <<>>
    /\ write_to_eval = <<>>
    /\ saved_paths = <<>>
    /\ upd = NoUpdate
    /\ warnings = 0
    /\ exc = NoneStr
    /\ log_writer = FALSE
    /\ is_closed = FALSE
    /\ close_log = <<>>
    /\ checkpoint_path = NoneStr

\* process_checkpoints, lines 1431-1435, before its first poll.
ValidatorInit ==
    /\ v_pc = "poll"
    /\ read_from_parent = <<>>
    /\ write_to_parent = <<>>
    /\ command = NoneStr
    /\ data = None
    /\ new_data = FALSE
    /\ v_exc = NoneStr
    /\ v_is_closed = FALSE
    /\ sent = <<>>
    /\ taken = 0
    /\ acted = <<>>

\* The engines that share the output directory.
Engines == 1..NumEngines

\* No engine has called _acquire_unique_local_start_time_string yet.
LockInit ==
    /\ clock = 0
    /\ lock_holder = None
    /\ l_pc = [e \in Engines |-> "start"]
    /\ last_start_time_string_list = [e \in Engines |-> None]
    /\ candidate_str = [e \in Engines |-> None]
    /\ start_time_strs = [e \in Engines |-> None]

\* RolloutStorage(num_processes = n), lines 1395-1399 and 1500-1508: a
\* column for each of n processes, holding no worker's data yet (0).
FreshStorage(n) == [i \in 1..n |-> 0]

\* No step has been taken; the storage has a column for every worker.
PauseInit ==
    /\ num_processes = Len(vector_tasks)
    /\ p_pc = "init"
    /\ actions_sent = 0
    /\ rollouts_procs = FreshStorage(Len(vector_tasks))
    /\ before = <<>>
    /\ observations = <<>>
    /\ step_dones = <<>>
    /\ sum_dones = 0
    /\ npaused = 0
    /\ keep = <<>>
    /\ batch = <<>>
    /\ pause_calls = <<>>
    /\ inserted = <<>>

\* No call of a queue reader is under way.
MetricsIdle ==
    /\ m_fn = "accumulate"
    /\ m_pc = "idle"
    /\ count = 0
    /\ m_queue = <<>>
    /\ m_queue0 = <<>>
    /\ polls = 0
    /\ train_metrics = <<>>
    /\ losses = <<>>
    /\ teachers = <<>>
    /\ valid_test_metrics = <<>>
    /\ unknown = <<>>
    /\ train_scalars = <<>>
    /\ unused = <<>>
    /\ used = <<>>

\* No checkpoint name is being built or parsed.
\* __init__, lines 126-260, of an engine that has loaded nothing.
FreshEngine(md, sched, sd, tag) ==
    [mode |-> md,
     actor_critic |-> "init_model",
     optimizer |-> IF md = "train" THEN "init_optimizer" ELSE NoneStr,
     lr_scheduler |-> IF md = "train" THEN sched ELSE NoneStr,
     step_count |-> 0,
     total_steps |-> 0,
     episode_count |-> 0,
     off_policy_epochs |-> None,
     backprop_count |-> 0,
     rollout_count |-> 0,
     pipeline_stage |-> 0,
     total_updates |-> 0,
     local_start_time_str |-> None,
     seed |-> sd,
     extra_tag |-> tag,
     num_processes |-> 1,
     set_seed_calls |-> <<>>,
     set_seeds_calls |-> <<>>]

\* A checkpoint dictionary that no call has been given.
NoCkpt == [model_state_dict |-> NoneStr]

\* __init__, line 247: the memory of a new engine is the empty dictionary.
OffpolicyIdle ==
    /\ o_pc = "constructed"
    /\ data_len = 1
    /\ data_iterator = None
    /\ offpolicy_memory = {}
    /\ loss_calls = <<>>
    /\ built = FALSE
    /\ o_updates = 0
    /\ o_stages = 0

\* train has advanced no scene.
SceneIdle == next_task_calls = <<>>

\* No engine is looked at by the checkpoint_load part of the model.
NoEngine == [mode |-> NoneStr]

LoadIdle ==
    /\ loads = 0
    /\ self_before = NoEngine
    /\ self_after = NoEngine
    /\ loaded_ckpt = NoCkpt

NameIdle ==
    /\ n_pc = "idle"
    /\ experiment_name = <<>>
    /\ name_fields = [time |-> None, stage |-> None, steps |-> None,
                      seed |-> None]
    /\ model_path = <<>>
    /\ parsed_steps = [value |-> None, raised |-> NoneStr]
    /\ checkpoint_start_time = [value |-> <<>>, raised |-> NoneStr]
    /\ expected_path = <<>>
    /\ files_folder = <<>>

\* The parts outside the training engine, at rest.
AuxInit ==
    /\ render_video = FALSE
    /\ ValidatorInit
    /\ last_start_time_file = None
    /\ LockInit
    /\ vector_tasks = <<1>>
    /\ mode = "train"
    /\ PauseInit
    /\ MetricsIdle
    /\ NameIdle
    /\ LoadIdle
    /\ SceneIdle
    /\ OffpolicyIdle
    /\ DrainIdle
    /\ CtorIdle
    /\ ClosesIdle
    /\ SetupIdle
    /\ FilesIdle

Init ==
    /\ config \in PipelineConfigs
    /\ run = 1
    /\ last_start_time_string = 0
    /\ ckpt = <<>>
    /\ trace = <<>>
    /\ rtrace = <<>>
    /\ EngineInit
    /\ AuxInit

\* ------------------------------------------------------------- checkpoints

\* checkpoint_save, lines 376-381: with a seed, draw a fresh trainer seed,
\* install it with set_seed, then draw the worker seeds and hand them to
\* vector_tasks.set_seeds.  (The worker pool is open throughout train().)
Reseed(sd, x, p) ==
    IF sd # None
    THEN LET s1 == NextRng(x)
         IN [seed |-> s1, rng |-> RngAfter(p, SeedState(s1)),
             seeds |-> WorkerSeeds(p, SeedState(s1)), called |-> TRUE]
    ELSE [seed |-> sd, rng |-> x, seeds |-> <<>>, called |-> FALSE]

\* checkpoint_save, lines 383-394: the fields that make up the file name.
ModelPath(sd) ==
    [time |-> local_start_time_str, stage |-> pipeline_stage,
     steps |-> total_steps + step_count, seed |-> sd]

\* checkpoint_save, lines 396-410: the counters of save_dict.
SaveDict(sd) ==
    [total_updates |-> total_updates,
     total_steps |-> total_steps,
     pipeline_stage |-> pipeline_stage,
     rollout_count |-> rollout_count,
     backprop_count |-> backprop_count,
     step_count |-> step_count,
     episode_count |-> episode_count,
     off_policy_epochs |-> off_policy_epochs,
     local_start_time_str |-> local_start_time_str,
     trainer_seed |-> sd]

\* CheckpointLoad that draws the worker seeds without installing the saved
\* trainer seed first.
CheckpointLoadNoSetSeed(d) ==
    [step_count |-> d.step_count,
     total_steps |-> d.total_steps,
     episode_count |-> d.episode_count,
     off_policy_epochs |-> d.off_policy_epochs,
     backprop_count |-> d.backprop_count,
     rollout_count |-> d.rollout_count,
     pipeline_stage |-> d.pipeline_stage,
     total_updates |-> d.total_updates,
     local_start_time_str |-> d.local_start_time_str,
     seed |-> d.trainer_seed,
     rng |-> IF d.trainer_seed # None
             THEN RngAfter(config.nprocesses, rng)
             ELSE rng,
     set_seeds_arg |-> IF d.trainer_seed # None
                       THEN WorkerSeeds(config.nprocesses, rng)
                       ELSE set_seeds_arg]

\* checkpoint_load in train mode, lines 437-453: the fields it assigns.
CheckpointLoad(d) ==
    [step_count |-> d.step_count,
     total_steps |-> d.total_steps,
     episode_count |-> d.episode_count,
     off_policy_epochs |-> d.off_policy_epochs,
     backprop_count |-> d.backprop_count,
     rollout_count |-> d.rollout_count,
     pipeline_stage |-> d.pipeline_stage,
     total_updates |-> d.total_updates,
     local_start_time_str |-> d.local_start_time_str,
     seed |-> d.trainer_seed,
     rng |-> IF d.trainer_seed # None
             THEN RngAfter(config.nprocesses, SeedState(d.trainer_seed))
             ELSE rng,
     set_seeds_arg |-> IF d.trainer_seed # None
                       THEN WorkerSeeds(config.nprocesses, SeedState(d.trainer_seed))
                       ELSE set_seeds_arg]

\* ------------------------------------------------ progressions (history)

Progress(tr, t) == IF tr # <<>> /\ tr[Len(tr)] # t THEN Append(tr, t) ELSE tr

\* Record the new value of (total_steps, pipeline_stage, rollout_count) in
\* the progression of the running engine.
Track(ts, ps, rc) ==
    /\ trace' = IF run = 1 THEN Progress(trace, <<ts, ps, rc>>) ELSE trace
    /\ rtrace' = IF run = 2 THEN Progress(rtrace, <<ts, ps, rc>>) ELSE rtrace

\* ------------------------------------------------------------ run_pipeline

\* get_checkpoint_path, lines 1205-1226, with the first match returned when
\* the search finds several files.
GetCheckpointPathFirstMatch(exists, matches) ==
    IF exists
    THEN [value |-> "expected_path", raised |-> NoneStr]
    ELSE IF matches = 0
         THEN [value |-> NoneStr, raised |-> "RuntimeError"]
         ELSE [value |-> "ckpts[0]", raised |-> NoneStr]

\* get_checkpoint_path, lines 1205-1226: the expected path when a file
\* exists there; else the recursive search of the working directory, whose
\* single match is returned, and RuntimeError for no match or several.
GetCheckpointPath(exists, matches) ==
    IF exists
    THEN [value |-> "expected_path", raised |-> NoneStr]
    ELSE IF matches = 0
         THEN [value |-> NoneStr, raised |-> "RuntimeError"]
         ELSE IF matches > 1
              THEN [value |-> NoneStr, raised |-> "RuntimeError"]
              ELSE [value |-> "ckpts[0]", raised |-> NoneStr]

\* run_pipeline, line 1339: the lookup of the checkpoint file given to the
\* restarted run.
Lookup == GetCheckpointPath(config.expected_exists, config.num_ckpts)

\* run_pipeline, lines 1337-1340: load the named checkpoint, if one is given.
RunPipelineLoad ==
    /\ pc = "start"
    /\ run = 2 => Lookup.raised = NoneStr
    /\ pc' = "loaded"
    /\ checkpoint_path' = IF run = 2 THEN Lookup.value ELSE checkpoint_path
    /\ UNCHANGED <<exc, log_writer, is_closed, close_log>>
    /\ IF run = 2
       THEN LET L == CheckpointLoad(ckpt[1].dict)
            IN /\ step_count' = L.step_count
               /\ total_steps' = L.total_steps
               /\ episode_count' = L.episode_count
               /\ off_policy_epochs' = L.off_policy_epochs
               /\ backprop_count' = L.backprop_count
               /\ rollout_count' = L.rollout_count
               /\ pipeline_stage' = L.pipeline_stage
               /\ total_updates' = L.total_updates
               /\ local_start_time_str' = L.local_start_time_str
               /\ seed' = L.seed
               /\ rng' = L.rng
               /\ set_seeds_arg' = L.set_seeds_arg
               /\ rtrace' = <<<<L.total_steps, L.pipeline_stage, L.rollout_count>>>>
       ELSE UNCHANGED <<step_count, total_steps, episode_count,
                        off_policy_epochs, backprop_count, rollout_count,
                        pipeline_stage, total_updates, local_start_time_str,
                        seed, rng, set_seeds_arg, rtrace>>
    /\ UNCHANGED <<warnings, config, run, stage_num, last_save,
                   last_metrics_accumulate_steps, num_rollouts,
                   max_stage_steps, steps_in_rollout,
                   early_stopping_criterion_met, step, mb,
                   offpolicy_data_iterator, metrics_out_queue, write_to_eval,
                   last_start_time_string, ckpt, saved_paths, upd, trace>>
    /\ UNCHANGED aux_vars

\* run_pipeline, lines 1342-1356: take a run identifier that differs from
\* the last one handed out, open the log writer (the pipeline logs), then
\* enter the stage loop at pipeline_stage.
AcquireStartTime ==
    /\ pc = "loaded"
    /\ pc' = "stage"
    /\ local_start_time_str' = last_start_time_string + 1
    /\ last_start_time_string' = last_start_time_string + 1
    /\ log_writer' = TRUE
    /\ stage_num' = pipeline_stage
    /\ UNCHANGED <<exc, is_closed, close_log, checkpoint_path>>
    /\ UNCHANGED <<warnings, config, run, total_updates, pipeline_stage, rollout_count,
                   backprop_count, step_count, total_steps, episode_count,
                   off_policy_epochs, last_save,
                   last_metrics_accumulate_steps, seed, num_rollouts,
                   max_stage_steps, steps_in_rollout,
                   early_stopping_criterion_met, step, mb,
                   offpolicy_data_iterator, rng, set_seeds_arg,
                   metrics_out_queue, write_to_eval, ckpt, saved_paths, upd,
                   trace, rtrace>>
    /\ UNCHANGED aux_vars

\* run_pipeline, lines 1356-1392 and train, lines 970-976: the iterator
\* yields the next stage, the per-stage markers are reset, setup_stage
\* computes the budget and train() starts.  A failed assertion raises.
StageBegin ==
    /\ pc = "stage"
    /\ stage_num < NumStages
    /\ IF stage_num # pipeline_stage
       THEN /\ pc' = "raised"
            /\ exc' = "AssertionError"
            /\ UNCHANGED <<stage_num, last_metrics_accumulate_steps, last_save,
                           steps_in_rollout, num_rollouts, max_stage_steps,
                           early_stopping_criterion_met,
                           offpolicy_data_iterator>>
       ELSE /\ pc' = "loop"
            /\ stage_num' = stage_num + 1
            /\ last_metrics_accumulate_steps' = 0
            /\ last_save' = step_count
            /\ steps_in_rollout' = config.num_steps
            /\ num_rollouts' = NumRollouts(config.max_stage_steps,
                                           config.num_steps, config.nprocesses)
            /\ max_stage_steps' = RecordedMaxStageSteps(config.max_stage_steps,
                                           config.num_steps, config.nprocesses)
            /\ early_stopping_criterion_met' = FALSE
            /\ offpolicy_data_iterator' = None
            /\ exc' = exc
    /\ UNCHANGED <<log_writer, is_closed, close_log, checkpoint_path>>
    /\ UNCHANGED <<warnings, config, run, total_updates, pipeline_stage, rollout_count,
                   backprop_count, step_count, total_steps, episode_count,
                   off_policy_epochs, local_start_time_str, seed, step, mb,
                   rng, set_seeds_arg, metrics_out_queue, write_to_eval,
                   last_start_time_string, ckpt, saved_paths, upd, trace,
                   rtrace>>
    /\ UNCHANGED aux_vars

\* ------------------------------------------------------------------- train

\* LoopCondition with the budget test off by one.
LoopConditionOffByOne ==
    rollout_count <= num_rollouts /\ ~early_stopping_criterion_met

\* train, lines 978-980: the condition of the while loop.
LoopCondition ==
    rollout_count < num_rollouts /\ ~early_stopping_criterion_met

\* train, lines 978-982: the loop condition holds, an iteration starts.
TrainLoopEnter ==
    /\ pc = "loop"
    /\ LoopCondition
    /\ pc' = "collect"
    /\ step' = 0
    /\ UNCHANGED <<warnings, config, run, stage_num, total_updates, pipeline_stage,
                   rollout_count, backprop_count, step_count, total_steps,
                   episode_count, off_policy_epochs, last_save,
                   last_metrics_accumulate_steps, local_start_time_str, seed,
                   num_rollouts, max_stage_steps, steps_in_rollout,
                   early_stopping_criterion_met, mb, offpolicy_data_iterator,
                   rng, set_seeds_arg, metrics_out_queue, write_to_eval,
                   last_start_time_string, ckpt, saved_paths, upd, trace,
                   rtrace>>
    /\ UNCHANGED aux_vars
    /\ UNCHANGED teardown_vars

\* collect_rollout_step, lines 889-906, called by train, lines 982-983: one
\* action per worker is sent, step_count grows by their number and
\* episode_count by the number of dones.  After the last step of the rollout
\* update() is entered (train, line 1003).
CollectRolloutStep ==
    /\ pc = "collect"
    /\ step < steps_in_rollout
    /\ step_count' = step_count + config.nprocesses
    /\ \E dones \in 0..config.nprocesses :
          /\ episode_count + dones <= MaxEpisodes
          /\ episode_count' = episode_count + dones
    /\ step' = step + 1
    /\ IF step + 1 = steps_in_rollout
       THEN /\ pc' = "update"
            /\ mb' = 0
            /\ upd' = [bc0 |-> backprop_count, emitted |-> 0,
                       opt_steps |-> 0, warned |-> 0]
       ELSE UNCHANGED <<pc, mb, upd>>
    /\ UNCHANGED <<warnings, config, run, stage_num, total_updates, pipeline_stage,
                   rollout_count, backprop_count, total_steps,
                   off_policy_epochs, last_save,
                   last_metrics_accumulate_steps, local_start_time_str, seed,
                   num_rollouts, max_stage_steps, steps_in_rollout,
                   early_stopping_criterion_met, offpolicy_data_iterator,
                   rng, set_seeds_arg, metrics_out_queue, write_to_eval,
                   last_start_time_string, ckpt, saved_paths, trace, rtrace>>
    /\ UNCHANGED aux_vars
    /\ UNCHANGED teardown_vars

\* MiniBatchEffect that emits the update_package before testing the loss.
MiniBatchEffectAlwaysPut(valid) ==
    [put |-> TRUE, opt |-> valid, inc |-> IF valid THEN 1 ELSE 0,
     warn |-> ~valid]

\* update, lines 709-725, for one mini-batch: with a tensor as total loss
\* the update_package is put on the metrics queue, the optimizer steps and
\* backprop_count grows; otherwise only a warning is issued.
MiniBatchEffect(valid) ==
    [put |-> valid, opt |-> valid, inc |-> IF valid THEN 1 ELSE 0,
     warn |-> ~valid]

\* update, lines 665-725: one mini-batch of one epoch.  After the last one
\* update() returns.
UpdateMiniBatch ==
    /\ pc = "update"
    /\ mb < config.update_repeats * config.num_mini_batch
    /\ \E valid \in BOOLEAN :
          LET e == MiniBatchEffect(valid)
          IN /\ warnings + (IF e.warn THEN 1 ELSE 0) <= MaxWarnings
             /\ warnings' = warnings + (IF e.warn THEN 1 ELSE 0)
             /\ metrics_out_queue' =
                    IF e.put
                    THEN Append(metrics_out_queue,
                                <<"update_package", [offpolicy |-> FALSE]>>)
                    ELSE metrics_out_queue
             /\ backprop_count' = backprop_count + e.inc
             /\ upd' = [upd EXCEPT
                          !.emitted = @ + (IF e.put THEN 1 ELSE 0),
                          !.opt_steps = @ + (IF e.opt THEN 1 ELSE 0),
                          !.warned = @ + (IF e.warn THEN 1 ELSE 0)]
    /\ mb' = mb + 1
    /\ pc' = IF mb + 1 = config.update_repeats * config.num_mini_batch
             THEN "updated" ELSE "update"
    /\ UNCHANGED <<config, run, stage_num, total_updates, pipeline_stage,
                   rollout_count, step_count, total_steps, episode_count,
                   off_policy_epochs, last_save,
                   last_metrics_accumulate_steps, local_start_time_str, seed,
                   num_rollouts, max_stage_steps, steps_in_rollout,
                   early_stopping_criterion_met, step,
                   offpolicy_data_iterator, rng, set_seeds_arg, write_to_eval,
                   last_start_time_string, ckpt, saved_paths, trace, rtrace>>
    /\ UNCHANGED aux_vars
    /\ UNCHANGED teardown_vars

\* train, lines 1004-1005: rollouts.after_update(); rollout_count += 1.
AfterUpdate ==
    /\ pc = "updated"
    /\ rollout_count' = rollout_count + 1
    /\ pc' = IF config.offpolicy THEN "offpolicy" ELSE "accumulate"
    /\ Track(total_steps, pipeline_stage, rollout_count + 1)
    /\ UNCHANGED <<warnings, config, run, stage_num, total_updates, pipeline_stage,
                   backprop_count, step_count, total_steps, episode_count,
                   off_policy_epochs, last_save,
                   last_metrics_accumulate_steps, local_start_time_str, seed,
                   num_rollouts, max_stage_steps, steps_in_rollout,
                   early_stopping_criterion_met, step, mb,
                   offpolicy_data_iterator, rng, set_seeds_arg,
                   metrics_out_queue, write_to_eval, last_start_time_string,
                   ckpt, saved_paths, upd>>
    /\ UNCHANGED aux_vars
    /\ UNCHANGED teardown_vars

\* offpolicy_update, lines 734-748: build the data iterator when there is
\* none, rebuild it when it is exhausted, and take the next batch.
OffpolicyNextBatch(it, epochs) ==
    LET it1 == IF it = None THEN DataLen ELSE it
        ep1 == IF it = None
               THEN (IF epochs = None THEN 0 ELSE epochs + 1)
               ELSE epochs
    IN IF it1 = 0
       THEN [it |-> DataLen - 1, epochs |-> ep1 + 1]
       ELSE [it |-> it1 - 1, epochs |-> ep1]

\* train, lines 1007-1012 and offpolicy_update, lines 733-805, for a
\* component with updates = 1.
OffpolicyUpdate ==
    /\ pc = "offpolicy"
    /\ pc' = "accumulate"
    /\ LET n == OffpolicyNextBatch(offpolicy_data_iterator, off_policy_epochs)
       IN /\ offpolicy_data_iterator' = n.it
          /\ off_policy_epochs' = n.epochs
    /\ \E valid \in BOOLEAN :
          LET e == MiniBatchEffect(valid)
          IN /\ warnings + (IF e.warn THEN 1 ELSE 0) <= MaxWarnings
             /\ warnings' = warnings + (IF e.warn THEN 1 ELSE 0)
             /\ metrics_out_queue' =
                    IF e.put
                    THEN Append(metrics_out_queue,
                                <<"update_package", [offpolicy |-> TRUE]>>)
                    ELSE metrics_out_queue
             /\ backprop_count' = backprop_count + e.inc
             /\ upd' = [bc0 |-> backprop_count,
                        emitted |-> IF e.put THEN 1 ELSE 0,
                        opt_steps |-> IF e.opt THEN 1 ELSE 0,
                        warned |-> IF e.warn THEN 1 ELSE 0]
    /\ UNCHANGED <<config, run, stage_num, total_updates, pipeline_stage,
                   rollout_count, step_count, total_steps, episode_count,
                   last_save, last_metrics_accumulate_steps,
                   local_start_time_str, seed, num_rollouts, max_stage_steps,
                   steps_in_rollout, early_stopping_criterion_met, step, mb,
                   rng, set_seeds_arg, write_to_eval, last_start_time_string,
                   ckpt, saved_paths, trace, rtrace>>
    /\ UNCHANGED aux_vars
    /\ UNCHANGED teardown_vars

\* The test of lines 1017-1021 without its end-of-stage part.
ShouldAccumulateIntervalOnly ==
    step_count - last_metrics_accumulate_steps
       >= config.metric_accumulate_interval

\* train, lines 1017-1021.
ShouldAccumulate ==
    \/ step_count - last_metrics_accumulate_steps
          >= config.metric_accumulate_interval
    \/ rollout_count = num_rollouts

\* train, lines 1017-1047: drain the metrics queue and evaluate the
\* early-stopping criterion, when due.
AccumulateMetrics ==
    /\ pc = "accumulate"
    /\ pc' = "save"
    /\ IF ShouldAccumulate
       THEN /\ metrics_out_queue' = <<>>
            /\ early_stopping_criterion_met' =
                   EarlyStoppingCriterion(step_count, total_steps)
            /\ last_metrics_accumulate_steps' = step_count
       ELSE UNCHANGED <<metrics_out_queue, early_stopping_criterion_met,
                        last_metrics_accumulate_steps>>
    /\ UNCHANGED <<warnings, config, run, stage_num, total_updates, pipeline_stage,
                   rollout_count, backprop_count, step_count, total_steps,
                   episode_count, off_policy_epochs, last_save,
                   local_start_time_str, seed, num_rollouts, max_stage_steps,
                   steps_in_rollout, step, mb, offpolicy_data_iterator, rng,
                   set_seeds_arg, write_to_eval, last_start_time_string, ckpt,
                   saved_paths, upd, trace, rtrace>>
    /\ UNCHANGED aux_vars
    /\ UNCHANGED teardown_vars

\* train, lines 1050-1053.
ShouldSave ==
    /\ config.save_interval # None
    /\ \/ rollout_count = num_rollouts
       \/ (0 < config.save_interval
           /\ config.save_interval <= step_count - last_save)

\* EvalCommands that announces every checkpoint twice.
EvalCommandsTwice(path) ==
    IF HasValidator THEN <<<<"eval", path>>, <<"eval", path>>>> ELSE <<>>

\* train, lines 1055-1056: the command put on write_to_eval after a save.
EvalCommands(path) ==
    IF HasValidator THEN <<<<"eval", path>>>> ELSE <<>>

\* train, lines 1049-1057 with checkpoint_save, lines 373-418.  The file
\* written may be the one that run 2 is later started from.
SaveCheckpoint ==
    /\ pc = "save"
    /\ pc' = IF config.advance_scene_rollout_period # None
             THEN "advance" ELSE "loop"
    /\ IF ShouldSave
       THEN LET R == Reseed(seed, rng, config.nprocesses)
                path == ModelPath(R.seed)
                file == [path |-> path,
                         dict |-> SaveDict(R.seed),
                         at_save |->
                           [last_save |-> last_save,
                            last_metrics_accumulate_steps |->
                                last_metrics_accumulate_steps,
                            reseeded |-> R.called,
                            drawn |-> IF R.called THEN NextRng(rng) ELSE None,
                            set_seeds_arg |-> R.seeds,
                            stage_done |-> ~LoopCondition]]
            IN /\ seed' = R.seed
               /\ rng' = R.rng
               /\ set_seeds_arg' = IF R.called THEN R.seeds ELSE set_seeds_arg
               /\ saved_paths' = Append(saved_paths, path)
               /\ write_to_eval' = write_to_eval \o EvalCommands(path)
               /\ last_save' = step_count
               /\ \/ /\ run = 1
                     /\ ckpt' = <<file>>
                     /\ trace' = <<<<total_steps, pipeline_stage, rollout_count>>>>
                  \/ UNCHANGED <<ckpt, trace>>
       ELSE UNCHANGED <<seed, rng, set_seeds_arg, saved_paths, write_to_eval,
                        last_save, ckpt, trace>>
    /\ UNCHANGED <<warnings, config, run, stage_num, total_updates, pipeline_stage,
                   rollout_count, backprop_count, step_count, total_steps,
                   episode_count, off_policy_epochs,
                   last_metrics_accumulate_steps, local_start_time_str,
                   num_rollouts, max_stage_steps, steps_in_rollout,
                   early_stopping_criterion_met, step, mb,
                   offpolicy_data_iterator, metrics_out_queue,
                   last_start_time_string, upd, rtrace>>
    /\ UNCHANGED aux_vars
    /\ UNCHANGED teardown_vars

\* StageBoundary without the advance of pipeline_stage.
StageBoundaryNoAdvance ==
    [total_updates |-> total_updates + num_rollouts,
     pipeline_stage |-> pipeline_stage,
     rollout_count |-> 0,
     backprop_count |-> 0,
     total_steps |-> total_steps + step_count,
     step_count |-> 0]

\* StageBoundary that drops the steps of the stage instead of folding them
\* into total_steps.
StageBoundaryDropsSteps ==
    [total_updates |-> total_updates + num_rollouts,
     pipeline_stage |-> pipeline_stage + 1,
     rollout_count |-> 0,
     backprop_count |-> 0,
     total_steps |-> total_steps,
     step_count |-> 0]

\* run_pipeline, lines 1402-1408: the counters after a stage.
StageBoundary ==
    [total_updates |-> total_updates + num_rollouts,
     pipeline_stage |-> pipeline_stage + 1,
     rollout_count |-> 0,
     backprop_count |-> 0,
     total_steps |-> total_steps + step_count,
     step_count |-> 0]

\* train() returns (its loop condition is false) and run_pipeline, lines
\* 1402-1408, moves to the next stage.
StageEnd ==
    /\ pc = "loop"
    /\ ~LoopCondition
    /\ pc' = "stage"
    /\ LET B == StageBoundary
       IN /\ total_updates' = B.total_updates
          /\ pipeline_stage' = B.pipeline_stage
          /\ rollout_count' = B.rollout_count
          /\ backprop_count' = B.backprop_count
          /\ total_steps' = B.total_steps
          /\ step_count' = B.step_count
          /\ Track(B.total_steps, B.pipeline_stage, B.rollout_count)
    /\ UNCHANGED <<warnings, config, run, stage_num, episode_count, off_policy_epochs,
                   last_save, last_metrics_accumulate_steps,
                   local_start_time_str, seed, num_rollouts, max_stage_steps,
                   steps_in_rollout, early_stopping_criterion_met, step, mb,
                   offpolicy_data_iterator, rng, set_seeds_arg,
                   metrics_out_queue, write_to_eval, last_start_time_string,
                   ckpt, saved_paths, upd>>
    /\ UNCHANGED aux_vars
    /\ UNCHANGED teardown_vars

\* The payload None of the exit command.
NoPath == [time |-> None, stage |-> None, steps |-> None, seed |-> None]

\* An exception e is raised inside the try block of run_pipeline: control
\* passes to lines 1409-1411, nothing else changes.
Raises(e) ==
    /\ pc' = "raised"
    /\ exc' = e
    /\ UNCHANGED <<warnings, config, run, stage_num, total_updates,
                   pipeline_stage, rollout_count, backprop_count, step_count,
                   total_steps, episode_count, off_policy_epochs, last_save,
                   last_metrics_accumulate_steps, local_start_time_str, seed,
                   num_rollouts, max_stage_steps, steps_in_rollout,
                   early_stopping_criterion_met, step, mb,
                   offpolicy_data_iterator, rng, set_seeds_arg,
                   metrics_out_queue, write_to_eval, last_start_time_string,
                   ckpt, saved_paths, upd, trace, rtrace, log_writer,
                   is_closed, close_log, checkpoint_path>>
    /\ UNCHANGED aux_vars

\* run_pipeline, lines 1337-1340 with get_checkpoint_path, lines 1218-1224:
\* the named checkpoint file is not found.
RunPipelineLoadRaises ==
    /\ pc = "start"
    /\ run = 2
    /\ Lookup.raised # NoneStr
    /\ Raises(Lookup.raised)

\* _acquire_unique_local_start_time_string, lines 1319-1327: the lock was
\* not acquired within 60 s; Timeout is logged and raised.  What the engine
\* holds as local_start_time_str and the file as last start time after it.
TimeoutOutcomeAssigns ==
    [str |-> last_start_time_string + 1, file |-> last_start_time_string + 1]

TimeoutOutcome ==
    [str |-> local_start_time_str, file |-> last_start_time_string]

\* run_pipeline, line 1346: _acquire_unique_local_start_time_string raises
\* Timeout.
AcquireStartTimeTimeout ==
    /\ pc = "loaded"
    /\ pc' = "raised"
    /\ exc' = "Timeout"
    /\ local_start_time_str' = TimeoutOutcome.str
    /\ last_start_time_string' = TimeoutOutcome.file
    /\ UNCHANGED <<warnings, config, run, stage_num, total_updates,
                   pipeline_stage, rollout_count, backprop_count, step_count,
                   total_steps, episode_count, off_policy_epochs, last_save,
                   last_metrics_accumulate_steps, seed, num_rollouts,
                   max_stage_steps, steps_in_rollout,
                   early_stopping_criterion_met, step, mb,
                   offpolicy_data_iterator, rng, set_seeds_arg,
                   metrics_out_queue, write_to_eval, ckpt, saved_paths, upd,
                   trace, rtrace, log_writer, is_closed, close_log,
                   checkpoint_path>>
    /\ UNCHANGED aux_vars

\* collect_rollout_step, line 892, called by train, line 983: stepping the
\* environments raises.
CollectRolloutStepRaises ==
    /\ pc = "collect"
    /\ Raises("EnvironmentError")

\* ------------------------------------------------------------------- close

\* The resources close() closes, in the order of lines 1681, 1693 and 1709.
Resources == <<"vector_tasks", "eval_process", "log_writer">>

\* close, lines 1695-1696 and 1711-1712: the worker pool always exists, the
\* validator process and the log writer may be None.
Present(r) ==
    \/ r = "vector_tasks"
    \/ r = "eval_process" /\ HasValidator
    \/ r = "log_writer" /\ log_writer

\* close() that gives up at the first close operation that raises.
CloseStopsAtFailure(fails) ==
    LET n == IF \E i \in 1..3 : Resources[i] \in fails
             THEN CHOOSE i \in 1..3 :
                    /\ Resources[i] \in fails
                    /\ \A j \in 1..(i - 1) : Resources[j] \notin fails
             ELSE 3
    IN [i \in 1..n |->
          <<Resources[i],
            IF Resources[i] \in fails THEN "raised"
            ELSE IF Present(Resources[i]) THEN "closed" ELSE "absent">>]

\* close, lines 1679-1721: the three try blocks, one after the other; an
\* exception raised by a close operation is logged and dropped.
Close(fails) ==
    [i \in 1..3 |->
       <<Resources[i],
         IF Resources[i] \in fails THEN "raised"
         ELSE IF Present(Resources[i]) THEN "closed" ELSE "absent">>]

\* The exception re-raised by run_pipeline is dropped.
Swallowed(e) == NoneStr

\* run_pipeline, lines 1409-1411: `except Exception as e: raise e`.
Reraised(e) == e

\* close() that does not look at _is_closed.
CloseEngineUnguarded ==
    LET fails == {r \in config.close_raises : Present(r)}
        attempts == Close(fails)
        Closed(r) == \E i \in 1..Len(attempts) : attempts[i] = <<r, "closed">>
    IN /\ close_log' = attempts
       /\ is_closed' = TRUE
       /\ write_to_eval' = IF Closed("eval_process")
                           THEN Append(write_to_eval, <<"exit", NoPath>>)
                           ELSE write_to_eval
       /\ log_writer' = (log_writer /\ ~Closed("log_writer"))

\* close, lines 1668-1723: nothing when the engine is closed already;
\* otherwise the worker pool is closed, the exit command is sent to the
\* validator when there is one, the log writer is closed, and _is_closed
\* is set.
CloseEngine ==
    IF is_closed
    THEN UNCHANGED <<write_to_eval, log_writer, is_closed, close_log>>
    ELSE LET fails == {r \in config.close_raises : Present(r)}
             attempts == Close(fails)
             Closed(r) == \E i \in 1..Len(attempts) :
                             attempts[i] = <<r, "closed">>
         IN /\ close_log' = attempts
            /\ is_closed' = TRUE
            /\ write_to_eval' = IF Closed("eval_process")
                                THEN Append(write_to_eval, <<"exit", NoPath>>)
                                ELSE write_to_eval
            /\ log_writer' = (log_writer /\ ~Closed("log_writer"))

\* run_pipeline, lines 1409-1419 with close, lines 1668-1723: the iterator
\* is exhausted, or an exception was raised; close() closes the worker pool,
\* sends the exit command to the validator when there is one, and closes
\* the log writer; the exception, if any, propagates to the caller.
Finally ==
    /\ \/ pc = "stage" /\ stage_num >= NumStages
       \/ pc = "raised"
    /\ exc' = Reraised(exc)
    /\ UNCHANGED checkpoint_path
    /\ pc' = IF exc' # NoneStr THEN "failed" ELSE "done"
    /\ CloseEngine
    /\ UNCHANGED <<warnings, config, run, stage_num, total_updates, pipeline_stage,
                   rollout_count, backprop_count, step_count, total_steps,
                   episode_count, off_policy_epochs, last_save,
                   last_metrics_accumulate_steps, local_start_time_str, seed,
                   num_rollouts, max_stage_steps, steps_in_rollout,
                   early_stopping_criterion_met, step, mb,
                   offpolicy_data_iterator, rng, set_seeds_arg,
                   metrics_out_queue, last_start_time_string, ckpt,
                   saved_paths, upd, trace, rtrace>>
    /\ UNCHANGED aux_vars

\* A new train-mode engine is constructed (__init__, lines 126-289) with the
\* configuration of run 1, to be started from a checkpoint file of run 1.
Construct ==
    /\ pc = "done"
    /\ run = 1
    /\ ckpt # <<>>
    /\ run' = 2
    /\ pc' = "start"
    /\ stage_num' = None
    /\ total_updates' = 0
    /\ pipeline_stage' = 0
    /\ rollout_count' = 0
    /\ backprop_count' = 0
    /\ step_count' = 0
    /\ episode_count' = 0
    /\ off_policy_epochs' = None
    /\ total_steps' = 0
    /\ last_metrics_accumulate_steps' = 0
    /\ last_save' = 0
    /\ local_start_time_str' = None
    /\ seed' = config.seed
    /\ num_rollouts' = None
    /\ max_stage_steps' = None
    /\ steps_in_rollout' = None
    /\ early_stopping_criterion_met' = FALSE
    /\ step' = 0
    /\ mb' = 0
    /\ offpolicy_data_iterator' = None
    /\ rng' = IF config.seed # None THEN SeedState(config.seed) ELSE None
    /\ set_seeds_arg' = <<>>
    /\ metrics_out_queue' = <<>>
    /\ write_to_eval' = <<>>
    /\ saved_paths' = <<>>
    /\ upd' = NoUpdate
    /\ warnings' = 0
    /\ exc' = NoneStr
    /\ log_writer' = FALSE
    /\ is_closed' = FALSE
    /\ close_log' = <<>>
    /\ checkpoint_path' = NoneStr
    /\ UNCHANGED <<config, last_start_time_string, ckpt, trace, rtrace>>
    /\ UNCHANGED aux_vars

Next ==
    \/ RunPipelineLoad
    \/ AcquireStartTime
    \/ StageBegin
    \/ TrainLoopEnter
    \/ CollectRolloutStep
    \/ UpdateMiniBatch
    \/ AfterUpdate
    \/ OffpolicyUpdate
    \/ AccumulateMetrics
    \/ SaveCheckpoint
    \/ StageEnd
    \/ Finally
    \/ Construct

\* The runs of run_pipeline in which nothing raises.
Spec == Init /\ [][Next]_vars

\* The runs of run_pipeline in which the checkpoint may be missing, the lock
\* may time out, the environments may raise and close operations may raise.
TeardownInit ==
    /\ config \in TeardownConfigs
    /\ run = 1
    /\ last_start_time_string = 0
    /\ ckpt = <<>>
    /\ trace = <<>>
    /\ rtrace = <<>>
    /\ EngineInit
    /\ AuxInit

TeardownNext ==
    \/ RunPipelineLoad
    \/ AcquireStartTime
    \/ StageBegin
    \/ TrainLoopEnter
    \/ CollectRolloutStep
    \/ UpdateMiniBatch
    \/ AfterUpdate
    \/ OffpolicyUpdate
    \/ AccumulateMetrics
    \/ SaveCheckpoint
    \/ StageEnd
    \/ Finally
    \/ Construct
    \/ RunPipelineLoadRaises
    \/ AcquireStartTimeTimeout
    \/ CollectRolloutStepRaises

TeardownSpec == TeardownInit /\ [][TeardownNext]_vars

MaxCloses == 2

\* close() is called once more, directly or by __exit__ or __del__ (lines
\* 1725-1732), after run_pipeline has returned or raised.
CloseCall ==
    /\ pc \in {"done", "failed"}
    /\ later_closes < MaxCloses
    /\ later_closes' = later_closes + 1
    /\ CloseEngine
    /\ UNCHANGED <<pc, exc, checkpoint_path>>
    /\ UNCHANGED <<warnings, config, run, stage_num, total_updates, pipeline_stage,
                   rollout_count, backprop_count, step_count, total_steps,
                   episode_count, off_policy_epochs, last_save,
                   last_metrics_accumulate_steps, local_start_time_str, seed,
                   num_rollouts, max_stage_steps, steps_in_rollout,
                   early_stopping_criterion_met, step, mb,
                   offpolicy_data_iterator, rng, set_seeds_arg,
                   metrics_out_queue, last_start_time_string, ckpt,
                   saved_paths, upd, trace, rtrace>>
    /\ UNCHANGED <<validator_vars, lock_vars, pause_vars, metrics_vars, name_vars,
                   load_vars, scene_vars, offpolicy_vars, files_vars,
                   setup_vars,
                   ctor_vars,
                   drain_vars>>

CloseNext == TeardownNext \/ CloseCall

\* The runs of TeardownSpec followed by any number of further calls of
\* close().
CloseSpec == TeardownInit /\ [][CloseNext]_vars

\* train, lines 1059-1063, for a stage with a scene-advance period: when
\* rollout_count is a multiple of the period, the workers are forced to the
\* next scene and the rollouts are initialized again.
AdvanceScene ==
    /\ pc = "advance"
    /\ pc' = "loop"
    /\ next_task_calls' =
         IF rollout_count % config.advance_scene_rollout_period = 0
         THEN Append(next_task_calls, <<pipeline_stage, rollout_count>>)
         ELSE next_task_calls
    /\ UNCHANGED <<warnings, config, run, stage_num, total_updates,
                   pipeline_stage, rollout_count, backprop_count, step_count,
                   total_steps, episode_count, off_policy_epochs, last_save,
                   last_metrics_accumulate_steps, local_start_time_str, seed,
                   num_rollouts, max_stage_steps, steps_in_rollout,
                   early_stopping_criterion_met, step, mb,
                   offpolicy_data_iterator, rng, set_seeds_arg,
                   metrics_out_queue, write_to_eval, last_start_time_string,
                   ckpt, saved_paths, upd, trace, rtrace>>
    /\ UNCHANGED teardown_vars
    /\ UNCHANGED <<validator_vars, lock_vars, pause_vars, metrics_vars,
                   name_vars, load_vars, offpolicy_vars,
                   files_vars,
                   setup_vars,
                   closes_vars,
                   ctor_vars,
                   drain_vars>>

\* Configurations of the runs whose stages have a scene-advance period.
SceneConfigs ==
    [ nprocesses : {1},
      num_steps : {1},
      max_stage_steps : {MaxStageSteps},
      update_repeats : {1},
      num_mini_batch : {1},
      save_interval : {None, 2},
      metric_accumulate_interval : {1, 2},
      es_threshold : {None, 2},
      valid_nprocesses : {0},
      offpolicy : BOOLEAN,
      seed : {None},
      close_raises : {{}},
      expected_exists : {FALSE},
      num_ckpts : {1},
      advance_scene_rollout_period : {1, 2} ]

SceneInit ==
    /\ config \in SceneConfigs
    /\ run = 1
    /\ last_start_time_string = 0
    /\ ckpt = <<>>
    /\ trace = <<>>
    /\ rtrace = <<>>
    /\ EngineInit
    /\ AuxInit

SceneNext ==
    \/ RunPipelineLoad
    \/ AcquireStartTime
    \/ StageBegin
    \/ TrainLoopEnter
    \/ CollectRolloutStep
    \/ UpdateMiniBatch
    \/ AfterUpdate
    \/ OffpolicyUpdate
    \/ AccumulateMetrics
    \/ SaveCheckpoint
    \/ AdvanceScene
    \/ StageEnd
    \/ Finally
    \/ Construct

\* The runs of run_pipeline whose stages advance the scene.
SceneSpec == SceneInit /\ [][SceneNext]_vars

\* ------------------------------------------- the stage budget on its own

BudgetInit ==
    /\ config \in BudgetConfigs
    /\ run = 1
    /\ last_start_time_string = 0
    /\ ckpt = <<>>
    /\ trace = <<>>
    /\ rtrace = <<>>
    /\ EngineInit
    /\ AuxInit

\* setup_stage, lines 1086-1095, applied to the configured stage.
SetupStage ==
    /\ pc = "start"
    /\ pc' = "budget"
    /\ steps_in_rollout' = config.num_steps
    /\ num_rollouts' = NumRollouts(config.max_stage_steps, config.num_steps,
                                   config.nprocesses)
    /\ max_stage_steps' = RecordedMaxStageSteps(config.max_stage_steps,
                                   config.num_steps, config.nprocesses)
    /\ UNCHANGED <<warnings, config, run, stage_num, total_updates,
                   pipeline_stage, rollout_count, backprop_count, step_count,
                   total_steps, episode_count, off_policy_epochs, last_save,
                   last_metrics_accumulate_steps, local_start_time_str, seed,
                   early_stopping_criterion_met, step, mb,
                   offpolicy_data_iterator, rng, set_seeds_arg,
                   metrics_out_queue, write_to_eval, last_start_time_string,
                   ckpt, saved_paths, upd, trace, rtrace>>
    /\ UNCHANGED aux_vars
    /\ UNCHANGED teardown_vars

BudgetSpec == BudgetInit /\ [][SetupStage]_vars

\* ---------------------------------------------------- the validator process

\* A training engine that has been constructed and takes no step.
IdleConfig ==
    [ nprocesses |-> 1, num_steps |-> 1, max_stage_steps |-> MaxStageSteps,
      update_repeats |-> 1, num_mini_batch |-> 1, save_interval |-> 2,
      metric_accumulate_interval |-> 1, es_threshold |-> None,
      valid_nprocesses |-> 1, offpolicy |-> FALSE, seed |-> None,
      close_raises |-> {},
      expected_exists |-> FALSE, num_ckpts |-> 1,
      advance_scene_rollout_period |-> None ]

EngineIdle ==
    /\ config = IdleConfig
    /\ run = 1
    /\ last_start_time_string = 0
    /\ ckpt = <<>>
    /\ trace = <<>>
    /\ rtrace = <<>>
    /\ EngineInit

\* The commands a parent may put: ("eval", path) with the path of the
\* checkpoint just written (here the number of the command), the three
\* terminating commands with payload None, and a command outside the protocol.
Commands(n) ==
    {<<"eval", n>>, <<"quit", None>>, <<"exit", None>>, <<"close", None>>,
     <<"reload", None>>}

\* train lines 1055-1056 and close lines 1697: the parent puts a command.
ParentPut ==
    /\ Len(sent) < MaxCommands
    /\ \E c \in Commands(Len(sent) + 1) :
          /\ read_from_parent' = Append(read_from_parent, c)
          /\ sent' = Append(sent, c)
    /\ UNCHANGED <<v_pc, render_video, write_to_parent, command, data,
                   new_data, v_exc, v_is_closed, taken, acted>>
    /\ UNCHANGED not_validator_vars

\* DrainCondition that stops at the first command read.
DrainConditionFirstOnly == ~new_data

\* process_checkpoints, line 1437: the condition of the inner while loop.
DrainCondition == ~new_data \/ read_from_parent # <<>>

\* process_checkpoints, lines 1437-1443: one pass of the inner loop.
\* get_nowait takes the head of the queue, or raises queue.Empty and the
\* validator sleeps.
ValidatorPoll ==
    /\ v_pc = "poll"
    /\ DrainCondition
    /\ IF read_from_parent # <<>>
       THEN /\ command' = Head(read_from_parent)[1]
            /\ data' = Head(read_from_parent)[2]
            /\ read_from_parent' = Tail(read_from_parent)
            /\ new_data' = TRUE
            /\ taken' = taken + 1
       ELSE UNCHANGED <<command, data, read_from_parent, new_data, taken>>
    /\ UNCHANGED <<v_pc, render_video, write_to_parent, v_exc, v_is_closed,
                   sent, acted>>
    /\ UNCHANGED not_validator_vars

\* process_checkpoints, lines 1437 and 1445: the inner loop is left with the
\* command last read.
ValidatorLoopExit ==
    /\ v_pc = "poll"
    /\ ~DrainCondition
    /\ v_pc' = "act"
    /\ acted' = Append(acted, taken)
    /\ UNCHANGED <<render_video, read_from_parent, write_to_parent, command,
                   data, new_data, v_exc, v_is_closed, sent, taken>>
    /\ UNCHANGED not_validator_vars

\* run_eval, lines 1548-1561: the value returned, a tuple of the metrics,
\* the rendered video (None without render_video) and the samples.
RunEval(checkpoint_file_name, render) ==
    << <<"scalars", checkpoint_file_name>>,
       IF render THEN <<"render", checkpoint_file_name>> ELSE None,
       <<"samples", checkpoint_file_name>> >>

\* process_checkpoints, lines 1446-1458: the eval branch.  The value of
\* run_eval is unpacked into three names with render_video and into two
\* without; unpacking a tuple of another length raises ValueError.
EvalBranch(path, render) ==
    LET value == RunEval(path, render)
        names == IF render THEN 3 ELSE 2
    IN IF Len(value) # names
       THEN [raised |-> "ValueError", put |-> <<>>]
       ELSE [raised |-> NoneStr,
             put |-> << <<"valid_metrics",
                          IF render THEN <<value[1], value[2]>>
                                    ELSE value[1]>> >>]

\* IsTerminate without the command close.
IsTerminateNoClose(c) == c \in {"quit", "exit"}

\* process_checkpoints, line 1459.
IsTerminate(c) == c \in {"quit", "exit", "close"}

\* process_checkpoints, lines 1445-1464: act on the command last read.
ValidatorAct ==
    /\ v_pc = "act"
    /\ IF command = "eval"
       THEN LET e == EvalBranch(data, render_video)
            IN /\ write_to_parent' = write_to_parent \o e.put
               /\ v_exc' = e.raised
               /\ v_pc' = IF e.raised = NoneStr THEN "poll" ELSE "raised"
               /\ new_data' = (e.raised # NoneStr)
               /\ UNCHANGED v_is_closed
       ELSE IF IsTerminate(command)
       THEN /\ v_is_closed' = TRUE
            /\ v_pc' = "exited"
            /\ UNCHANGED <<write_to_parent, v_exc, new_data>>
       ELSE /\ v_exc' = "NotImplementedError"
            /\ v_pc' = "raised"
            /\ UNCHANGED <<write_to_parent, v_is_closed, new_data>>
    /\ UNCHANGED <<render_video, read_from_parent, command, data, sent, taken,
                   acted>>
    /\ UNCHANGED not_validator_vars

ValidatorSpecInit ==
    /\ EngineIdle
    /\ render_video \in BOOLEAN
    /\ ValidatorInit
    /\ last_start_time_file = None
    /\ LockInit
    /\ vector_tasks = <<1>>
    /\ mode = "train"
    /\ PauseInit
    /\ MetricsIdle
    /\ NameIdle
    /\ LoadIdle
    /\ SceneIdle
    /\ OffpolicyIdle
    /\ DrainIdle
    /\ CtorIdle
    /\ ClosesIdle
    /\ SetupIdle
    /\ FilesIdle

ValidatorNext ==
    \/ ParentPut
    \/ ValidatorPoll
    \/ ValidatorLoopExit
    \/ ValidatorAct

ValidatorSpec == ValidatorSpecInit /\ [][ValidatorNext]_vars

\* ------------------------------ _acquire_unique_local_start_time_string

\* The clock advances by a second; it never goes back.
Tick ==
    /\ clock < MaxClock
    /\ clock' = clock + 1
    /\ UNCHANGED <<lock_holder, last_start_time_file, l_pc,
                   last_start_time_string_list, candidate_str,
                   start_time_strs>>
    /\ UNCHANGED not_lock_vars

\* A file lock that lets every engine in.
FileLockAlwaysFree == TRUE

\* line 1295, FileLock: the lock can be taken when no engine holds it.
FileLockFree == lock_holder = None

\* line 1295: engine e enters the with block.
LockAcquire(e) ==
    /\ l_pc[e] = "start"
    /\ FileLockFree
    /\ lock_holder' = e
    /\ l_pc' = [l_pc EXCEPT ![e] = "read"]
    /\ UNCHANGED <<clock, last_start_time_file, last_start_time_string_list,
                   candidate_str, start_time_strs>>
    /\ UNCHANGED not_lock_vars

\* lines 1295 and 1319-1328: another engine held the lock for the whole
\* wait of engine e; Timeout is raised.
LockTimeout(e) ==
    /\ l_pc[e] = "start"
    /\ ~FileLockFree
    /\ l_pc' = [l_pc EXCEPT ![e] = "timeout"]
    /\ UNCHANGED <<clock, lock_holder, last_start_time_file,
                   last_start_time_string_list, candidate_str,
                   start_time_strs>>
    /\ UNCHANGED not_lock_vars

\* lines 1296-1302: touch the file and read its lines.
ReadLastStartTime(e) ==
    /\ l_pc[e] = "read"
    /\ last_start_time_string_list' =
          [last_start_time_string_list EXCEPT ![e] = last_start_time_file]
    /\ l_pc' = [l_pc EXCEPT ![e] = "candidate"]
    /\ UNCHANGED <<clock, lock_holder, last_start_time_file, candidate_str,
                   start_time_strs>>
    /\ UNCHANGED not_lock_vars

\* lines 1304-1313: one pass of the while loop; the candidate is the clock
\* reading, taken when the file was empty or holds another string.
NextCandidate(e) ==
    /\ l_pc[e] = "candidate"
    /\ candidate_str' = [candidate_str EXCEPT ![e] = clock]
    /\ IF \/ last_start_time_string_list[e] = None
          \/ last_start_time_string_list[e] # clock
       THEN /\ start_time_strs' = [start_time_strs EXCEPT ![e] = clock]
            /\ l_pc' = [l_pc EXCEPT ![e] = "write"]
       ELSE UNCHANGED <<start_time_strs, l_pc>>
    /\ UNCHANGED <<clock, lock_holder, last_start_time_file,
                   last_start_time_string_list>>
    /\ UNCHANGED not_lock_vars

\* lines 1315-1318: the candidate replaces the content of the file.
WriteLastStartTime(e) ==
    /\ l_pc[e] = "write"
    /\ last_start_time_file' = candidate_str[e]
    /\ l_pc' = [l_pc EXCEPT ![e] = "release"]
    /\ UNCHANGED <<clock, lock_holder, last_start_time_string_list,
                   candidate_str, start_time_strs>>
    /\ UNCHANGED not_lock_vars

\* lines 1295 and 1329-1330: the with block is left, the lock released and
\* candidate_str returned.
LockRelease(e) ==
    /\ l_pc[e] = "release"
    /\ lock_holder' = None
    /\ l_pc' = [l_pc EXCEPT ![e] = "returned"]
    /\ UNCHANGED <<clock, last_start_time_file, last_start_time_string_list,
                   candidate_str, start_time_strs>>
    /\ UNCHANGED not_lock_vars

\* The directory is new, or an earlier run left its start time in the file.
LockSpecInit ==
    /\ EngineIdle
    /\ render_video = FALSE
    /\ ValidatorInit
    /\ last_start_time_file \in {None, 0}
    /\ LockInit
    /\ vector_tasks = <<1>>
    /\ mode = "train"
    /\ PauseInit
    /\ MetricsIdle
    /\ NameIdle
    /\ LoadIdle
    /\ SceneIdle
    /\ OffpolicyIdle
    /\ DrainIdle
    /\ CtorIdle
    /\ ClosesIdle
    /\ SetupIdle
    /\ FilesIdle

LockNext ==
    \/ Tick
    \/ \E e \in Engines : LockAcquire(e)
    \/ \E e \in Engines : LockTimeout(e)
    \/ \E e \in Engines : ReadLastStartTime(e)
    \/ \E e \in Engines : NextCandidate(e)
    \/ \E e \in Engines : WriteLastStartTime(e)
    \/ \E e \in Engines : LockRelease(e)

LockSpec == LockSpecInit /\ [][LockNext]_vars

\* ------------------------------------------------- workers that pause

\* enumerate(observations), line 943: the positions, counted from 0.
Positions(obs) == [i \in 1..Len(obs) |-> i - 1]

\* reversed(paused), line 950.
Reversed(s) == [i \in 1..Len(s) |-> s[Len(s) + 1 - i]]

\* The pause_at calls made in the order of the list paused.
PauseOrderAscending(paused) == paused

\* remove_paused_and_batch, lines 950-951: the order of the pause_at calls.
PauseOrder(paused) == Reversed(paused)

\* vector_tasks.pause_at(p): the worker at position p among the unpaused
\* workers is paused, the others keep their order.
PauseAt(tasks, p) ==
    IF p < Len(tasks)
    THEN [j \in 1..(Len(tasks) - 1) |-> IF j <= p THEN tasks[j] ELSE tasks[j + 1]]
    ELSE tasks

\* The pool after the pause_at calls, one after the other.
RECURSIVE PauseEach(_, _)
PauseEach(tasks, calls) ==
    IF calls = <<>> THEN tasks
    ELSE PauseEach(PauseAt(tasks, Head(calls)), Tail(calls))

\* remove_paused_and_batch that keeps every position.
RemovePausedAndBatchKeepsAll(tasks, obs) ==
    LET paused == SelectSeq(Positions(obs), LAMBDA it : obs[it + 1] = None)
        running == SelectSeq(obs, LAMBDA o : o # None)
        calls == PauseOrder(paused)
    IN [npaused |-> Len(paused), keep |-> Positions(obs), batch |-> running,
        calls |-> calls, tasks |-> PauseEach(tasks, calls)]

\* remove_paused_and_batch, lines 941-955.  batch_observations keeps the
\* order of the running observations.
RemovePausedAndBatch(tasks, obs) ==
    LET paused == SelectSeq(Positions(obs), LAMBDA it : obs[it + 1] = None)
        kept == SelectSeq(Positions(obs), LAMBDA it : obs[it + 1] # None)
        running == SelectSeq(obs, LAMBDA o : o # None)
        calls == PauseOrder(paused)
    IN [npaused |-> Len(paused), keep |-> kept, batch |-> running,
        calls |-> calls, tasks |-> PauseEach(tasks, calls)]

\* Every per-process value is handed to insert whole.
IndexAll(x, kept) == x

\* collect_rollout_step, lines 929-933: x[keep] for a list keep of
\* positions counted from 0.
IndexKept(x, kept) == [j \in 1..Len(kept) |-> x[kept[j] + 1]]

\* OnPolicyRLEngine._active_memory(memory, keep): the memory of the kept
\* samplers.
ActiveMemory(memory, kept) == [j \in 1..Len(kept) |-> memory[kept[j] + 1]]

\* RolloutStorage.reshape(keep): every array is projected onto the kept
\* processes.
Reshape(procs, kept) == [j \in 1..Len(kept) |-> procs[kept[j] + 1]]

\* vector_tasks.step, lines 892-895: each unpaused worker returns its
\* observation or None.
ObservationLists(tasks) ==
    {[i \in 1..Len(tasks) |-> IF i \in S THEN None ELSE tasks[i]] :
       S \in SUBSET (1..Len(tasks))}

\* collect_rollout_step, lines 889-890, with the test of the mode left out.
StepCountAfterAnyMode(md, steps, nelement) == steps + nelement

\* collect_rollout_step, lines 889-890: in train mode step_count grows by
\* actions.nelement(), one action for each row of the storage.
StepCountAfter(md, steps, nelement) ==
    IF md = "train" THEN steps + nelement ELSE steps

\* collect_rollout_step, lines 856-934: the model's outputs and the step's
\* rewards and masks have one entry per process of the storage; the workers
\* are stepped, the paused ones removed, the storage reshaped and the kept
\* entries inserted.
CollectRolloutStepInsert ==
    /\ p_pc \in {"initialized", "stepped"}
    /\ vector_tasks # <<>>
    /\ mode = "train" => rollout_count < num_rollouts
    /\ step_count' = StepCountAfter(mode, step_count, Len(rollouts_procs))
    /\ IF mode = "train"
       THEN /\ step' = (step + 1) % steps_in_rollout
            /\ rollout_count' = IF step + 1 = steps_in_rollout
                                THEN rollout_count + 1 ELSE rollout_count
       ELSE UNCHANGED <<step, rollout_count>>
    /\ p_pc' = "stepped"
    /\ actions_sent' = Len(rollouts_procs)
    /\ UNCHANGED <<mode, num_processes>>
    /\ \E obs \in ObservationLists(vector_tasks),
          dn \in [1..Len(vector_tasks) -> BOOLEAN] :
         LET R == RemovePausedAndBatch(vector_tasks, obs)
             procs == rollouts_procs
             masks == [i \in 1..Len(procs) |->
                         <<procs[i], IF dn[i] THEN 0 ELSE 1>>]
         IN /\ before' = vector_tasks
            /\ observations' = obs
            /\ step_dones' = dn
            /\ sum_dones' = Cardinality({i \in 1..Len(dn) : dn[i]})
            /\ npaused' = R.npaused
            /\ keep' = R.keep
            /\ batch' = R.batch
            /\ pause_calls' = R.calls
            /\ vector_tasks' = R.tasks
            /\ rollouts_procs' = Reshape(rollouts_procs, R.keep)
            /\ inserted' = [observations |-> R.batch,
                            memory |-> ActiveMemory(procs, R.keep),
                            actions |-> IndexKept(procs, R.keep),
                            action_log_probs |-> IndexKept(procs, R.keep),
                            value_preds |-> IndexKept(procs, R.keep),
                            rewards |-> IndexKept(procs, R.keep),
                            masks |-> IndexKept(masks, R.keep)]
    /\ UNCHANGED <<config, run, pc, stage_num, total_updates, pipeline_stage,
                   backprop_count, total_steps, episode_count,
                   off_policy_epochs, last_save,
                   last_metrics_accumulate_steps, local_start_time_str, seed,
                   num_rollouts, max_stage_steps, steps_in_rollout,
                   early_stopping_criterion_met, mb, offpolicy_data_iterator,
                   rng, set_seeds_arg, metrics_out_queue, write_to_eval,
                   last_start_time_string, ckpt, saved_paths, upd, warnings,
                   trace, rtrace, teardown_vars>>
    /\ UNCHANGED <<validator_vars, lock_vars, metrics_vars, name_vars,
                   load_vars, scene_vars, offpolicy_vars,
                   files_vars,
                   setup_vars,
                   closes_vars,
                   ctor_vars,
                   drain_vars>>

\* RolloutStorage.insert_initial_observations(batch): slot 0 of the storage
\* is seeded, column j with the observation of the j-th running worker.
InsertInitialObservations(procs, obs_batch) ==
    IF Len(procs) = Len(obs_batch) THEN obs_batch ELSE procs

\* initialize_rollouts, lines 957-967, called by train (line 970, with the
\* fresh storage of the stage, and line 1063, with the storage in use) and
\* by run_eval (line 1511, with a fresh storage): the observations of the
\* unpaused workers are fetched, the workers without one are paused, and
\* the storage is reshaped and seeded.
InitializeRollouts ==
    /\ \/ p_pc = "init"
       \/ mode = "train" /\ p_pc \in {"initialized", "stepped"}
    /\ \E fresh \in BOOLEAN, obs \in ObservationLists(vector_tasks) :
         LET R == RemovePausedAndBatch(vector_tasks, obs)
             storage == IF fresh \/ p_pc = "init"
                        THEN FreshStorage(num_processes)
                        ELSE rollouts_procs
         IN /\ before' = vector_tasks
            /\ observations' = obs
            /\ npaused' = R.npaused
            /\ keep' = R.keep
            /\ batch' = R.batch
            /\ pause_calls' = R.calls
            /\ vector_tasks' = R.tasks
            /\ rollouts_procs' =
                 InsertInitialObservations(Reshape(storage, R.keep), R.batch)
    /\ p_pc' = "initialized"
    /\ step_dones' = <<>>
    /\ sum_dones' = 0
    /\ inserted' = <<>>
    /\ UNCHANGED <<mode, num_processes, actions_sent>>
    /\ UNCHANGED not_pause_vars

\* run_eval, lines 1518 and 1542-1543: every worker has paused, the loop is
\* left, resume_all and reset_all bring all workers back; the next run_eval
\* starts with a new storage.
RunEvalEnd ==
    /\ mode = "valid"
    /\ p_pc \in {"initialized", "stepped"}
    /\ vector_tasks = <<>>
    /\ vector_tasks' = [i \in 1..num_processes |-> i]
    /\ p_pc' = "init"
    /\ UNCHANGED <<mode, num_processes, actions_sent, rollouts_procs, before,
                   observations, step_dones, sum_dones, npaused, keep, batch,
                   pause_calls, inserted>>
    /\ UNCHANGED not_pause_vars

\* A pool of up to MaxWorkers workers, none paused.
PauseSpecInit ==
    /\ config = IdleConfig
    /\ run = 1
    /\ last_start_time_string = 0
    /\ ckpt = <<>>
    /\ trace = <<>>
    /\ rtrace = <<>>
    /\ pc = "start"
    /\ stage_num = None
    /\ total_updates = 0
    /\ pipeline_stage = 0
    /\ rollout_count = 0
    /\ backprop_count = 0
    /\ step_count = 0
    /\ episode_count = 0
    /\ off_policy_epochs = None
    /\ total_steps = 0
    /\ last_metrics_accumulate_steps = 0
    /\ last_save = 0
    /\ local_start_time_str = None
    /\ seed = config.seed
    /\ early_stopping_criterion_met = FALSE
    /\ step = 0
    /\ mb = 0
    /\ offpolicy_data_iterator = None
    /\ rng = None
    /\ set_seeds_arg = <<>>
    /\ metrics_out_queue = <<>>
    /\ write_to_eval = <<>>
    /\ saved_paths = <<>>
    /\ upd = NoUpdate
    /\ warnings = 0
    /\ exc = NoneStr
    /\ log_writer = FALSE
    /\ is_closed = FALSE
    /\ close_log = <<>>
    /\ checkpoint_path = NoneStr
    /\ render_video = FALSE
    /\ ValidatorInit
    /\ last_start_time_file = None
    /\ LockInit
    /\ vector_tasks \in {[i \in 1..n |-> i] : n \in 1..MaxWorkers}
    /\ mode \in {"train", "valid"}
    /\ IF mode = "train"
       THEN \E s \in 1..MaxCollects :
              LET M == MaxCollects * Len(vector_tasks)
              IN /\ steps_in_rollout = s
                 /\ num_rollouts = NumRollouts(M, s, Len(vector_tasks))
                 /\ max_stage_steps =
                      RecordedMaxStageSteps(M, s, Len(vector_tasks))
       ELSE /\ steps_in_rollout = None
            /\ num_rollouts = None
            /\ max_stage_steps = None
    /\ PauseInit
    /\ MetricsIdle
    /\ NameIdle
    /\ LoadIdle
    /\ SceneIdle
    /\ OffpolicyIdle
    /\ DrainIdle
    /\ CtorIdle
    /\ ClosesIdle
    /\ SetupIdle
    /\ FilesIdle

PauseNext ==
    \/ InitializeRollouts
    \/ CollectRolloutStepInsert
    \/ RunEvalEnd

PauseSpec == PauseSpecInit /\ [][PauseNext]_vars

\* ------------------------------------------------ readers of the metrics queue

\* The messages told apart by the readers: a plain mapping of a task, or a
\* tuple (tag, info); an update_package may be flagged off-policy.
MetricKinds ==
    {[tuple |-> FALSE, tag |-> "task", offpolicy |-> FALSE]}
    \cup [tuple : {TRUE}, tag : {"update_package"}, offpolicy : BOOLEAN]
    \cup [tuple : {TRUE},
          tag : {"teacher_package", "valid_metrics", "test_metrics", "other"},
          offpolicy : {FALSE}]

\* The queue contents of up to MaxQueue messages; id is the position of a
\* message in the queue at the call.
Queues ==
    UNION {[1..n -> MetricKinds] : n \in 0..MaxQueue}

Numbered(q) ==
    [i \in 1..Len(q) |-> [tuple |-> q[i].tuple, tag |-> q[i].tag,
                          offpolicy |-> q[i].offpolicy, id |-> i]]

\* Classification that takes validation and test packages for training
\* metrics.
PackageClassValidAsTrain(metric) ==
    IF ~metric.tuple \/ metric.tag \in {"valid_metrics", "test_metrics"}
    THEN "train_metrics"
    ELSE IF metric.tag = "update_package" THEN "losses"
    ELSE IF metric.tag = "teacher_package" THEN "teachers"
    ELSE "unknown"

\* accumulate_data_from_metrics_out_queue, lines 525-584: the list a message
\* goes to ("unknown": the warning of line 582).
PackageClass(metric) ==
    IF ~metric.tuple THEN "train_metrics"
    ELSE IF metric.tag \in {"valid_metrics", "test_metrics"}
    THEN "valid_test_metrics"
    ELSE IF metric.tag = "update_package" THEN "losses"
    ELSE IF metric.tag = "teacher_package" THEN "teachers"
    ELSE "unknown"

\* lines 564-565: the prefix of the keys of a loss record.
LossPrefix(metric) == IF metric.offpolicy THEN "offpolicy/" ELSE ""

\* What a list holds for a message: its id, for a loss record with the
\* prefix of its keys.
Entry(metric) ==
    IF PackageClass(metric) = "losses"
    THEN <<metric.id, LossPrefix(metric)>>
    ELSE <<metric.id>>

\* lines 489-491 and 585-587: after queue.Empty the loop is left only if
\* count <= 0.
EmptyPollBreaks(c) == c <= 0

\* accumulate_data_from_metrics_out_queue, lines 515-599: one pass of the
\* while loop; on break the records of train_metrics, losses and teachers
\* are added to self.scalars and the function returns.
AccumulatePoll ==
    /\ m_fn = "accumulate"
    /\ m_pc = "loop"
    /\ LET got == count # 0 /\ m_queue # <<>>
           metric == Head(m_queue)
           class == PackageClass(metric)
           Put(list, name) == IF got /\ class = name
                              THEN Append(list, Entry(metric)) ELSE list
           leave == count = 0 \/ (m_queue = <<>> /\ EmptyPollBreaks(count))
       IN /\ count # 0 => polls < MaxPolls
          /\ polls' = IF count = 0 THEN polls ELSE polls + 1
          /\ m_queue' = IF got THEN Tail(m_queue) ELSE m_queue
          /\ count' = IF got /\ count > 0 THEN count - 1 ELSE count
          /\ train_metrics' = Put(train_metrics, "train_metrics")
          /\ losses' = Put(losses, "losses")
          /\ teachers' = Put(teachers, "teachers")
          /\ valid_test_metrics' = Put(valid_test_metrics, "valid_test_metrics")
          /\ unknown' = Put(unknown, "unknown")
          /\ m_pc' = IF leave THEN "returned" ELSE "loop"
          /\ train_scalars' = IF leave
                              THEN train_metrics \o losses \o teachers
                              ELSE train_scalars
    /\ UNCHANGED <<m_fn, m_queue0, unused, used>>
    /\ UNCHANGED not_metrics_vars

\* process_eval_metrics, lines 471-496: one pass of the while loop; a
\* test_metrics package is set aside, a task's mapping is added to
\* self.scalars and counted, any other tuple has no items() and raises; on
\* break the packages set aside are put back.
ProcessEvalPoll ==
    /\ m_fn = "process_eval"
    /\ m_pc = "loop"
    /\ LET got == count # 0 /\ m_queue # <<>>
           metric == Head(m_queue)
           aside == got /\ metric.tuple /\ metric.tag = "test_metrics"
           fails == got /\ metric.tuple /\ metric.tag # "test_metrics"
           adds == got /\ ~metric.tuple
           leave == count = 0 \/ (m_queue = <<>> /\ EmptyPollBreaks(count))
       IN /\ count # 0 => polls < MaxPolls
          /\ polls' = IF count = 0 THEN polls ELSE polls + 1
          /\ unused' = IF aside THEN Append(unused, metric) ELSE unused
          /\ used' = IF adds THEN Append(used, <<metric.id>>) ELSE used
          /\ train_scalars' = IF adds THEN Append(train_scalars, <<metric.id>>)
                              ELSE train_scalars
          /\ count' = IF adds THEN count - 1 ELSE count
          /\ m_queue' = IF got THEN Tail(m_queue)
                        ELSE IF leave THEN m_queue \o unused
                        ELSE m_queue
          /\ m_pc' = IF fails THEN "raised"
                     ELSE IF leave THEN "returned" ELSE "loop"
    /\ UNCHANGED <<m_fn, m_queue0, train_metrics, losses, teachers,
                   valid_test_metrics, unknown>>
    /\ UNCHANGED not_metrics_vars

\* A reader is called with some count on some queue content.
MetricsSpecInit ==
    /\ EngineIdle
    /\ render_video = FALSE
    /\ ValidatorInit
    /\ last_start_time_file = None
    /\ LockInit
    /\ vector_tasks = <<1>>
    /\ mode = "train"
    /\ PauseInit
    /\ NameIdle
    /\ LoadIdle
    /\ SceneIdle
    /\ OffpolicyIdle
    /\ DrainIdle
    /\ CtorIdle
    /\ ClosesIdle
    /\ SetupIdle
    /\ FilesIdle
    /\ m_fn \in {"accumulate", "process_eval"}
    /\ m_pc = "loop"
    /\ count \in (0 - 1)..MaxCount
    /\ m_queue0 \in {Numbered(q) : q \in Queues}
    /\ m_queue = m_queue0
    /\ polls = 0
    /\ train_metrics = <<>>
    /\ losses = <<>>
    /\ teachers = <<>>
    /\ valid_test_metrics = <<>>
    /\ unknown = <<>>
    /\ train_scalars = <<>>
    /\ unused = <<>>
    /\ used = <<>>

MetricsNext ==
    \/ AccumulatePoll
    \/ ProcessEvalPoll

MetricsSpec == MetricsSpecInit /\ [][MetricsNext]_vars

\* ------------------------------------------------- checkpoint file names

\* A piece of a string: a literal (k is its text, v is 0), or a value
\* formatted into the name (k says which, v is the value).
Tok(k, v) == [k |-> k, v |-> v]

\* The literals of a name that end with an underscore.
UnderscoreEnd == {"exp_", "time_", "stage_", "steps_", "seed_"}

\* What an experiment name may be made of: plain text, the substrings the
\* readers of a file name look for, the separator, and digits.
NameTokens ==
    {Tok("text", 0), Tok("time_", 0), Tok("steps_", 0), Tok("__", 0),
     Tok("num", MaxStageSteps + 1)}

ExperimentNames == UNION {[1..n -> NameTokens] : n \in 0..MaxName}

\* checkpoint_save, lines 386-392: the format string, filled in with the
\* experiment name and the fields p of the path.
FormatName(exp, p) ==
    <<Tok("exp_", 0)>> \o exp
      \o <<Tok("__", 0), Tok("time_", 0), Tok("rid", p.time),
           Tok("__", 0), Tok("stage_", 0), Tok("num", p.stage),
           Tok("__", 0), Tok("steps_", 0), Tok("num", p.steps),
           Tok("__", 0), Tok("seed_", 0), Tok("seed", p.seed),
           Tok(".pt", 0)>>

\* s.split("__").
RECURSIVE Split(_)
Split(s) ==
    IF \A i \in 1..Len(s) : s[i].k # "__" THEN <<s>>
    ELSE LET i == CHOOSE j \in 1..Len(s) :
                    /\ s[j].k = "__"
                    /\ \A l \in 1..(j - 1) : s[l].k # "__"
         IN <<SubSeq(s, 1, i - 1)>> \o Split(SubSeq(s, i + 1, Len(s)))

\* `k in part` for a literal k.
Contains(part, k) == \E i \in 1..Len(part) : part[i].k = k

\* The first of the parts that contains the literal k.
FirstWith(parts, k) ==
    parts[CHOOSE i \in 1..Len(parts) :
            /\ Contains(parts[i], k)
            /\ \A j \in 1..(i - 1) : ~Contains(parts[j], k)]

\* part.split("_")[-1]: what follows the last underscore of the part.
LastPiece(part) ==
    IF \A i \in 1..Len(part) : part[i].k \notin UnderscoreEnd THEN part
    ELSE LET i == CHOOSE j \in 1..Len(part) :
                    /\ part[j].k \in UnderscoreEnd
                    /\ \A l \in (j + 1)..Len(part) :
                         part[l].k \notin UnderscoreEnd
         IN SubSeq(part, i + 1, Len(part))

\* int(s): the number of a string of digits, ValueError for any other.
IntOf(s) ==
    IF Len(s) = 1 /\ s[1].k = "num"
    THEN [value |-> s[1].v, raised |-> NoneStr]
    ELSE [value |-> None, raised |-> "ValueError"]

\* step_from_checkpoint, lines 1586-1591.
StepFromCheckpoint(name) ==
    LET parts == Split(name)
    IN IF \E i \in 1..Len(parts) : Contains(parts[i], "steps_")
       THEN IntOf(LastPiece(FirstWith(parts, "steps_")))
       ELSE [value |-> 0 - 1, raised |-> NoneStr]

\* get_checkpoint_path, lines 1198-1200: the first part with "time_" in it,
\* without its occurrences of "time_".
CheckpointStartTime(name) ==
    LET parts == Split(name)
    IN IF \E i \in 1..Len(parts) : Contains(parts[i], "time_")
       THEN [value |-> SelectSeq(FirstWith(parts, "time_"),
                                 LAMBDA tok : tok.k # "time_"),
             raised |-> NoneStr]
       ELSE [value |-> <<>>, raised |-> "IndexError"]

\* os.path.join: the components in order; an empty one adds nothing.
Join(components) == SelectSeq(components, LAMBDA c : c # <<>>)

OutputDir == <<Tok("output_dir", 0)>>
Checkpoints == <<Tok("checkpoints", 0)>>

\* models_folder, lines 364-371.
ModelsFolder(exp, time) ==
    Join(<<OutputDir, Checkpoints, exp, <<Tok("rid", time)>>>>)

\* get_checkpoint_path, lines 1202-1204.
ExpectedPath(start_time, file_name) ==
    Join(<<OutputDir, Checkpoints, start_time, file_name>>)

\* get_checkpoint_files, lines 1571-1573: the directory of the glob.
FilesFolder(experiment_date) ==
    Join(<<OutputDir, Checkpoints, experiment_date>>)

\* checkpoint_save, lines 373-394: the path of the file written.
CheckpointSaveName ==
    /\ n_pc = "input"
    /\ n_pc' = "saved"
    /\ model_path' = Append(ModelsFolder(experiment_name, name_fields.time),
                            FormatName(experiment_name, name_fields))
    /\ UNCHANGED <<experiment_name, name_fields, parsed_steps,
                   checkpoint_start_time, expected_path, files_folder>>
    /\ UNCHANGED not_name_vars

\* The file name of the checkpoint saved is handed to step_from_checkpoint
\* and to get_checkpoint_path, and its run-id to get_checkpoint_files.
ReadName ==
    /\ n_pc = "saved"
    /\ n_pc' = "parsed"
    /\ LET file_name == model_path[Len(model_path)]
           start == CheckpointStartTime(file_name)
       IN /\ parsed_steps' = StepFromCheckpoint(file_name)
          /\ checkpoint_start_time' = start
          /\ expected_path' = ExpectedPath(start.value, file_name)
          /\ files_folder' = FilesFolder(<<Tok("rid", name_fields.time)>>)
    /\ UNCHANGED <<experiment_name, name_fields, model_path>>
    /\ UNCHANGED not_name_vars

\* An engine with some experiment name is about to save a checkpoint.
NameSpecInit ==
    /\ EngineIdle
    /\ render_video = FALSE
    /\ ValidatorInit
    /\ last_start_time_file = None
    /\ LockInit
    /\ vector_tasks = <<1>>
    /\ mode = "train"
    /\ PauseInit
    /\ MetricsIdle
    /\ LoadIdle
    /\ SceneIdle
    /\ OffpolicyIdle
    /\ DrainIdle
    /\ CtorIdle
    /\ ClosesIdle
    /\ SetupIdle
    /\ FilesIdle
    /\ n_pc = "input"
    /\ experiment_name \in ExperimentNames
    /\ name_fields \in [time : 1..MaxClock, stage : 0..(NumStages - 1),
                        steps : 0..MaxStageSteps, seed : {None, 1}]
    /\ model_path = <<>>
    /\ parsed_steps = [value |-> None, raised |-> NoneStr]
    /\ checkpoint_start_time = [value |-> <<>>, raised |-> NoneStr]
    /\ expected_path = <<>>
    /\ files_folder = <<>>

NameNext ==
    \/ CheckpointSaveName
    \/ ReadName

NameSpec == NameSpecInit /\ [][NameNext]_vars

\* ------------------------------------------------------- checkpoint_load

\* A key the checkpoint dictionary does not have.
Absent == -2
AbsentStr == "absent"

\* ckpt.get(key, default), lines 439-440.
Get(v, default) == IF v = Absent THEN default ELSE v

\* The dictionaries given to checkpoint_load.
CkptDicts ==
    [ model_state_dict : {"ckpt_model"},
      step_count : 1..MaxCkptSteps,
      total_steps : {MaxCkptSteps + 1},
      episode_count : {Absent, 1},
      off_policy_epochs : {Absent, 1},
      optimizer_state_dict : {"ckpt_optimizer"},
      backprop_count : {1},
      rollout_count : {1},
      pipeline_stage : {1},
      total_updates : {1},
      local_start_time_str : {1},
      trainer_seed : {None, 1},
      scheduler_state : {"ckpt_scheduler"},
      extra_tag : {AbsentStr, "", "ckpt_tag"} ]

\* checkpoint_load, lines 434-440: what every mode restores.
LoadModelAndSteps(self, d) ==
    [self EXCEPT !.actor_critic = d.model_state_dict,
                 !.step_count = d.step_count,
                 !.total_steps = d.total_steps,
                 !.episode_count = Get(d.episode_count, 0),
                 !.off_policy_epochs = Get(d.off_policy_epochs, 0)]

\* checkpoint_load, lines 443-466: what the train mode restores besides.
LoadTrainingState(self, d) ==
    [self EXCEPT !.optimizer = d.optimizer_state_dict,
                 !.backprop_count = d.backprop_count,
                 !.rollout_count = d.rollout_count,
                 !.pipeline_stage = d.pipeline_stage,
                 !.total_updates = d.total_updates,
                 !.local_start_time_str = d.local_start_time_str,
                 !.seed = d.trainer_seed,
                 !.set_seed_calls =
                     IF d.trainer_seed # None
                     THEN Append(@, d.trainer_seed) ELSE @,
                 !.set_seeds_calls =
                     IF d.trainer_seed # None
                     THEN Append(@, WorkerSeeds(self.num_processes,
                                                SeedState(d.trainer_seed)))
                     ELSE @,
                 !.lr_scheduler =
                     IF @ # NoneStr THEN d.scheduler_state ELSE @,
                 !.extra_tag =
                     IF d.extra_tag # AbsentStr /\ d.extra_tag # "" /\ @ = ""
                     THEN d.extra_tag ELSE @]

\* checkpoint_load with the test of the mode, line 442, left out.
CheckpointLoadAsTrain(self, d) ==
    LoadTrainingState(LoadModelAndSteps(self, d), d)

\* checkpoint_load, lines 420-466.
CheckpointLoadOf(self, d) ==
    IF self.mode = "train"
    THEN LoadTrainingState(LoadModelAndSteps(self, d), d)
    ELSE LoadModelAndSteps(self, d)

\* run_eval, line 1498, and run_pipeline, line 1338: one call of
\* checkpoint_load.
CheckpointLoadCall ==
    /\ loads < MaxLoads
    /\ \E d \in CkptDicts :
         /\ loaded_ckpt' = d
         /\ self_before' = self_after
         /\ self_after' = CheckpointLoadOf(self_after, d)
    /\ loads' = loads + 1
    /\ UNCHANGED not_load_vars

LoadSpecInit ==
    /\ EngineIdle
    /\ render_video = FALSE
    /\ ValidatorInit
    /\ last_start_time_file = None
    /\ LockInit
    /\ vector_tasks = <<1>>
    /\ mode = "train"
    /\ PauseInit
    /\ MetricsIdle
    /\ NameIdle
    /\ SceneIdle
    /\ OffpolicyIdle
    /\ DrainIdle
    /\ CtorIdle
    /\ ClosesIdle
    /\ SetupIdle
    /\ FilesIdle
    /\ loads = 0
    /\ \E md \in {"train", "valid", "test"},
          sched \in {NoneStr, "init_scheduler"},
          sd \in {None, 2},
          tag \in {"", "engine_tag"} :
         /\ self_before = FreshEngine(md, sched, sd, tag)
         /\ self_after = FreshEngine(md, sched, sd, tag)
    /\ loaded_ckpt = NoCkpt

LoadNext == CheckpointLoadCall

LoadSpec == LoadSpecInit /\ [][LoadNext]_vars

\* -------------------------------------------------------- off-policy memory

\* Keys a loss may store in the memory dictionary.
Keys == 1..MaxKeys

\* offpolicy_update, lines 734-748, without the clear after the rebuild of
\* an exhausted iterator.
NextBatchKeepsMemory(len, it, memory) ==
    IF it = None
    THEN [it |-> len - 1, memory |-> {}, built |-> TRUE]
    ELSE IF it = 0
         THEN [it |-> len - 1, memory |-> memory, built |-> TRUE]
         ELSE [it |-> it - 1, memory |-> memory, built |-> FALSE]

\* offpolicy_update, lines 734-748: the iterator is built when there is
\* none and rebuilt when it is exhausted, each time with
\* self._offpolicy_memory.clear(); then the next batch is taken.
NextBatch(len, it, memory) ==
    IF it = None
    THEN [it |-> len - 1, memory |-> {}, built |-> TRUE]
    ELSE IF it = 0
         THEN [it |-> len - 1, memory |-> {}, built |-> TRUE]
         ELSE [it |-> it - 1, memory |-> memory, built |-> FALSE]

\* offpolicy_update, lines 763-780: the losses are called in turn, each
\* with the memory the one before returned.
LossCalls(memory, returned) ==
    [i \in 1..NumLosses |->
       [memory |-> IF i = 1 THEN memory ELSE returned[i - 1],
        returned |-> returned[i]]]

\* detach_recursively, lines 802-804: the same entries, cut from the graph.
DetachRecursively(memory) == memory

\* setup_stage, line 1127, followed by the start of train, line 974.
SetupStageClear ==
    /\ o_stages < NumStages
    /\ o_stages' = o_stages + 1
    /\ o_pc' = "train"
    /\ offpolicy_memory' = {}
    /\ data_iterator' = None
    /\ o_updates' = 0
    /\ loss_calls' = <<>>
    /\ built' = FALSE
    /\ UNCHANGED data_len
    /\ UNCHANGED not_offpolicy_vars

\* offpolicy_update, lines 733-805: one pass of its loop.  What a loss
\* returns as memory is up to the loss.
OffpolicyUpdateStep ==
    /\ o_pc = "train"
    /\ o_updates < MaxOffpolicyUpdates
    /\ o_updates' = o_updates + 1
    /\ \E returned \in [1..NumLosses -> SUBSET Keys] :
         LET b == NextBatch(data_len, data_iterator, offpolicy_memory)
             calls == LossCalls(b.memory, returned)
         IN /\ data_iterator' = b.it
            /\ built' = b.built
            /\ loss_calls' = calls
            /\ offpolicy_memory' =
                 DetachRecursively(calls[NumLosses].returned)
    /\ UNCHANGED <<o_pc, data_len, o_stages>>
    /\ UNCHANGED not_offpolicy_vars

OffpolicySpecInit ==
    /\ EngineIdle
    /\ render_video = FALSE
    /\ ValidatorInit
    /\ last_start_time_file = None
    /\ LockInit
    /\ vector_tasks = <<1>>
    /\ mode = "train"
    /\ PauseInit
    /\ MetricsIdle
    /\ NameIdle
    /\ LoadIdle
    /\ SceneIdle
    /\ o_pc = "constructed"
    /\ data_len \in 1..MaxData
    /\ data_iterator = None
    /\ offpolicy_memory = {}
    /\ loss_calls = <<>>
    /\ built = FALSE
    /\ o_updates = 0
    /\ o_stages = 0
    /\ DrainIdle
    /\ CtorIdle
    /\ ClosesIdle
    /\ SetupIdle
    /\ FilesIdle

OffpolicyNext == SetupStageClear \/ OffpolicyUpdateStep

OffpolicySpec == OffpolicySpecInit /\ [][OffpolicyNext]_vars

\* -------------------------------------------------- the checkpoints of a run

\* files[::stride] of Python, for 1-based sequences: the entries at the
\* 0-based indices 0, stride, 2 * stride, ...
EveryNth(files, stride) ==
    [i \in 1..((Len(files) + stride - 1) \div stride) |->
       files[(i - 1) * stride + 1]]

\* get_checkpoint_files that appends the last file whenever files are
\* skipped.
GetCheckpointFilesAppendsLast(files, name, nskip) ==
    IF name # None
    THEN <<name>>
    ELSE IF Len(files) > 0
         THEN EveryNth(files, nskip + 1)
              \o (IF nskip > 0 THEN <<files[Len(files)]>> ELSE <<>>)
         ELSE files

\* get_checkpoint_files, lines 1563-1584.  files is the sorted result of
\* the glob.
GetCheckpointFiles(files, name, nskip) ==
    IF name # None
    THEN <<name>>
    ELSE IF Len(files) > 0
         THEN EveryNth(files, nskip + 1)
              \o (IF nskip > 0 /\ Len(files) % (nskip + 1) # 1
                  THEN <<files[Len(files)]>> ELSE <<>>)
         ELSE files

\* A file name given to get_checkpoint_files; the files of the directory
\* are 1, 2, ... in sorted order.
GivenName == 0

\* run_test, lines 1610-1614: the call of get_checkpoint_files.
GetCheckpointFilesCall ==
    /\ listing.pc = "called"
    /\ listing' = [listing EXCEPT
                     !.pc = "returned",
                     !.returned = GetCheckpointFiles(listing.files,
                                      listing.checkpoint_file_name,
                                      listing.skip_checkpoints)]
    /\ UNCHANGED not_files_vars

FilesSpecInit ==
    /\ EngineIdle
    /\ render_video = FALSE
    /\ ValidatorInit
    /\ last_start_time_file = None
    /\ LockInit
    /\ vector_tasks = <<1>>
    /\ mode = "train"
    /\ PauseInit
    /\ MetricsIdle
    /\ NameIdle
    /\ LoadIdle
    /\ SceneIdle
    /\ OffpolicyIdle
    /\ DrainIdle
    /\ CtorIdle
    /\ ClosesIdle
    /\ SetupIdle
    /\ \E n \in 0..MaxFiles, k \in 0..MaxSkip, name \in {None, GivenName} :
         listing = [pc |-> "called",
                    files |-> [i \in 1..n |-> i],
                    checkpoint_file_name |-> name,
                    skip_checkpoints |-> k,
                    returned |-> <<>>]

FilesNext == GetCheckpointFilesCall

FilesSpec == FilesSpecInit /\ [][FilesNext]_vars

\* ================================================================== claims

\* Positions of train() inside one iteration of its loop.
InIteration ==
    pc \in {"collect", "update", "updated", "offpolicy", "accumulate", "save"}

InTrain == pc = "loop" \/ InIteration

\* A step of the same engine object (not the construction of a new one).
SameEngine == run' = run

\* The step in which train() has returned and run_pipeline closes the stage.
BoundaryStep == pc = "loop" /\ pc' = "stage"

\* The step in which checkpoint_load runs in a resumed run_pipeline.
LoadStep == pc = "start" /\ pc' = "loaded" /\ run = 2

\* C1: for positive M, s, p, setup_stage sets
\* num_rollouts = floor(floor(M / s) / p) and records
\* max_stage_steps = num_rollouts * p * s, which is a multiple of s * p, at
\* most M, and less than s * p below M; M = 1000, s = 50, p = 4 gives 5
\* rollouts and a recorded budget of 1000.
C1_StageBudget ==
    num_rollouts # None =>
        LET M == config.max_stage_steps
            s == config.num_steps
            p == config.nprocesses
        IN /\ steps_in_rollout = s
           /\ num_rollouts * (s * p) <= M
           /\ M < (num_rollouts + 1) * (s * p)
           /\ \E q \in 0..M : q * s <= M /\ M < (q + 1) * s
                              /\ num_rollouts * p <= q
                              /\ q < (num_rollouts + 1) * p
           /\ max_stage_steps = num_rollouts * p * s
           /\ max_stage_steps % (s * p) = 0
           /\ max_stage_steps <= M
           /\ M - max_stage_steps < s * p
           /\ (M = 1000 /\ s = 50 /\ p = 4
                 => num_rollouts = 5 /\ max_stage_steps = 1000)

C1_Witness ==
    /\ pc = "budget"
    /\ config.max_stage_steps = 1000
    /\ config.num_steps = 50
    /\ config.nprocesses = 4
    /\ num_rollouts = 5
    /\ max_stage_steps = 1000

\* C2 as stated: in run_pipeline, pipeline_stage only changes by +1, exactly
\* once after each stage's train() returns; it equals the index of the stage
\* being set up; a run that ends without an exception ends with
\* pipeline_stage = NumStages.
C2_Original ==
    /\ [][SameEngine /\ pipeline_stage' # pipeline_stage
            => BoundaryStep /\ pipeline_stage' = pipeline_stage + 1]_vars
    /\ [][BoundaryStep => pipeline_stage' = pipeline_stage + 1]_vars
    /\ [](pc = "stage" /\ stage_num < NumStages => stage_num = pipeline_stage)
    /\ [](pc = "done" => pipeline_stage = NumStages)

\* C2, amended: pipeline_stage changes by +1, exactly once after each
\* stage's train() returns, and otherwise only when checkpoint_load at the
\* start of a resumed run_pipeline sets it to the saved index; it equals the
\* index of the stage being set up (the assertion never fails); a run that
\* ends without an exception ends with pipeline_stage = NumStages.
C2_PipelineStagePointer ==
    /\ [][SameEngine /\ pipeline_stage' # pipeline_stage
            => \/ BoundaryStep /\ pipeline_stage' = pipeline_stage + 1
               \/ LoadStep /\ pipeline_stage' = ckpt[1].dict.pipeline_stage]_vars
    /\ [][BoundaryStep => pipeline_stage' = pipeline_stage + 1]_vars
    /\ [](pc = "stage" /\ stage_num < NumStages => stage_num = pipeline_stage)
    /\ [](exc # "AssertionError")
    /\ [](pc = "done" => pipeline_stage = NumStages)

\* A resumed run that entered at stage 1 has run to its end.
C2_Witness ==
    /\ run = 2
    /\ pc = "done"
    /\ ckpt[1].dict.pipeline_stage = 1
    /\ pipeline_stage = NumStages

\* C3 as stated: at every stage boundary rollout_count, backprop_count and
\* step_count are reset to 0 and total_steps grows by the step_count held
\* before, so total_steps + step_count is unchanged; episode_count and
\* off_policy_epochs are not reset; total_steps changes at no other point
\* of a training run.
C3_Original ==
    /\ [][BoundaryStep
            => /\ rollout_count' = 0
               /\ backprop_count' = 0
               /\ step_count' = 0
               /\ total_steps' = total_steps + step_count
               /\ total_steps' + step_count' = total_steps + step_count
               /\ episode_count' = episode_count
               /\ off_policy_epochs' = off_policy_epochs]_vars
    /\ [][SameEngine /\ total_steps' # total_steps => BoundaryStep]_vars

\* C3, amended: as stated, except that total_steps also changes when
\* checkpoint_load at the start of a resumed run_pipeline sets it to the
\* saved value; it changes at no other point of a training run.
C3_StageBoundaryCounters ==
    /\ [][BoundaryStep
            => /\ rollout_count' = 0
               /\ backprop_count' = 0
               /\ step_count' = 0
               /\ total_steps' = total_steps + step_count
               /\ total_steps' + step_count' = total_steps + step_count
               /\ episode_count' = episode_count
               /\ off_policy_epochs' = off_policy_epochs]_vars
    /\ [][SameEngine /\ total_steps' # total_steps
            => \/ BoundaryStep
               \/ LoadStep /\ total_steps' = ckpt[1].dict.total_steps]_vars

\* The second boundary of a run has been passed with steps, episodes and
\* off-policy epochs on the counters.
C3_Witness ==
    /\ pc = "stage"
    /\ pipeline_stage = 2
    /\ step_count = 0
    /\ rollout_count = 0
    /\ total_steps > config.max_stage_steps
    /\ episode_count > 0
    /\ off_policy_epochs # None
    /\ off_policy_epochs > 0

\* The checkpoint file run 2 is started from, and its save_dict.
Resumed == ckpt[1]
Saved == ckpt[1].dict

\* C4 as stated: a resumed run re-enters at the saved pipeline_stage with
\* the saved counters, and collects no rollout and runs no update for a
\* stage below the saved index, nor for the saved stage itself when that
\* stage had already completed (budget exhausted or early stopping) in the
\* run that wrote the checkpoint.
C4_NoReexecution ==
    /\ (run = 2 /\ pc = "stage" /\ rtrace = <<rtrace[1]>>
          => /\ stage_num = Saved.pipeline_stage
             /\ pipeline_stage = Saved.pipeline_stage
             /\ rollout_count = Saved.rollout_count
             /\ step_count = Saved.step_count
             /\ total_steps = Saved.total_steps)
    /\ (run = 2 /\ InIteration
          => /\ pipeline_stage >= Saved.pipeline_stage
             /\ ~(pipeline_stage = Saved.pipeline_stage
                  /\ Resumed.at_save.stage_done))

IsPrefix(a, b) == Len(a) <= Len(b) /\ a = SubSeq(b, 1, Len(a))

\* C5 as stated: from the checkpoint onward the resumed run goes through the
\* same sequence of (total_steps, pipeline_stage, rollout_count) as the run
\* that wrote the checkpoint, and ends with the same sequence.
C5_SameProgression ==
    run = 2 => /\ IsPrefix(rtrace, trace)
               /\ (pc = "done" => rtrace = trace)

\* C6 as stated: the checkpoint holds the full EngineState, and a train-mode
\* checkpoint_load sets every field of it back to its value at the save.
C6_RoundTrip ==
    run = 2 /\ pc = "loaded" =>
        /\ {"last_save", "last_metrics_accumulate_steps"} \subseteq DOMAIN Saved
        /\ total_updates = Saved.total_updates
        /\ pipeline_stage = Saved.pipeline_stage
        /\ rollout_count = Saved.rollout_count
        /\ backprop_count = Saved.backprop_count
        /\ step_count = Saved.step_count
        /\ total_steps = Saved.total_steps
        /\ episode_count = Saved.episode_count
        /\ off_policy_epochs = Saved.off_policy_epochs
        /\ local_start_time_str = Saved.local_start_time_str
        /\ seed = Saved.trainer_seed
        /\ last_save = Resumed.at_save.last_save
        /\ last_metrics_accumulate_steps =
               Resumed.at_save.last_metrics_accumulate_steps

\* C7: with a seed, the trainer seed stored in a checkpoint (and in its file
\* name) is the seed freshly drawn and installed before the worker seeds
\* were drawn, and a train-mode checkpoint_load of it hands set_seeds the
\* list checkpoint_save handed to set_seeds; with a stored seed of None
\* neither save nor load reseeds.
C7_DeterministicReseeding ==
    /\ (ckpt # <<>>
          => /\ Saved.trainer_seed = Resumed.path.seed
             /\ Resumed.at_save.reseeded = (config.seed # None)
             /\ Resumed.at_save.reseeded = (Saved.trainer_seed # None)
             /\ (Resumed.at_save.reseeded
                   => /\ Saved.trainer_seed = Resumed.at_save.drawn
                      /\ Len(Resumed.at_save.set_seeds_arg) = config.nprocesses
                      /\ Resumed.at_save.set_seeds_arg[1]
                             = NextRng(SeedState(Saved.trainer_seed))))
    /\ (run = 2 /\ pc = "loaded"
          => /\ seed = Saved.trainer_seed
             /\ (Saved.trainer_seed # None
                   => set_seeds_arg = Resumed.at_save.set_seeds_arg)
             /\ (Saved.trainer_seed = None
                   => set_seeds_arg = <<>> /\ rng = None))

\* A checkpoint whose seed differs from the constructor's has been loaded.
C7_Witness ==
    /\ run = 2
    /\ pc = "loaded"
    /\ Saved.trainer_seed # None
    /\ Saved.trainer_seed # config.seed
    /\ set_seeds_arg = Resumed.at_save.set_seeds_arg
    /\ Len(set_seeds_arg) = config.nprocesses

\* Number of mini-batch updates of one update() call.
UpdatesPerRollout == config.update_repeats * config.num_mini_batch

\* Number of positions train() passes per value of rollout_count.
PositionsPerRollout == UpdatesPerRollout + steps_in_rollout + 5

\* What is left of the pass through the positions of train() that ends with
\* rollout_count += 1: the rest of the previous iteration behind the
\* increment (off-policy update, metrics, save), the loop test, the rollout
\* steps and the mini-batches of the current one.
RestOfPass ==
    CASE pc = "offpolicy" -> UpdatesPerRollout + steps_in_rollout + 4
      [] pc = "accumulate" -> UpdatesPerRollout + steps_in_rollout + 3
      [] pc = "save" -> UpdatesPerRollout + steps_in_rollout + 2
      [] pc = "loop" -> UpdatesPerRollout + steps_in_rollout + 1
      [] pc = "collect" -> UpdatesPerRollout + (steps_in_rollout - step)
      [] pc = "update" -> UpdatesPerRollout - mb
      [] OTHER -> 0

\* The work train() has left: the rollouts still in its budget, and the rest
\* of the current pass.
TrainVariant ==
    (num_rollouts - rollout_count) * PositionsPerRollout + RestOfPass

\* C8: train() leaves its loop exactly when rollout_count = num_rollouts or
\* the early-stopping criterion has returned true; every iteration raises
\* rollout_count by exactly 1, rollout_count never exceeds num_rollouts, a
\* stage entered with rollout_count = r performs at most num_rollouts - r
\* iterations, and train() always returns: it is never blocked, and every
\* step it takes either returns from it or lowers a natural number.
C8_TrainLoopTerminates ==
    /\ [](InTrain => /\ rollout_count <= num_rollouts
                     /\ (pc \in {"collect", "update", "updated"}
                           => rollout_count < num_rollouts))
    /\ [][InIteration
            => \/ rollout_count' = rollout_count /\ pc # "updated"
               \/ rollout_count' = rollout_count + 1 /\ pc = "updated"]_vars
    /\ [][pc = "loop"
            => /\ rollout_count' = rollout_count \/ pc' = "stage"
               /\ (pc' = "stage"
                     <=> (rollout_count = num_rollouts
                          \/ early_stopping_criterion_met))
               /\ (pc' = "collect"
                     <=> (rollout_count < num_rollouts
                          /\ ~early_stopping_criterion_met))]_vars
    /\ [](InTrain => /\ ENABLED Next
                     /\ TrainVariant >= 0
                     /\ RestOfPass < PositionsPerRollout)
    /\ [][InTrain /\ pc' # "raised"
            => pc' = "stage" \/ (InTrain' /\ TrainVariant' < TrainVariant)]_vars

\* A run resumed in the middle of a stage has used up that stage's budget.
C8_Witness ==
    /\ run = 2
    /\ pc = "loop"
    /\ pipeline_stage = Saved.pipeline_stage
    /\ Saved.rollout_count > 0
    /\ Saved.rollout_count < num_rollouts
    /\ rollout_count = num_rollouts
    /\ ~early_stopping_criterion_met

Last(q) == q[Len(q)]

\* The effect of a loss that is a tensor, and of one that is not.
ValidLossStep(prior_opt_steps) ==
    /\ Len(metrics_out_queue') = Len(metrics_out_queue) + 1
    /\ metrics_out_queue' = Append(metrics_out_queue, Last(metrics_out_queue'))
    /\ Last(metrics_out_queue')[1] = "update_package"
    /\ Last(metrics_out_queue')[2].offpolicy = (pc = "offpolicy")
    /\ upd'.emitted = upd'.opt_steps
    /\ upd'.opt_steps = prior_opt_steps + 1
    /\ backprop_count' = backprop_count + 1
    /\ warnings' = warnings

InvalidLossStep(prior_opt_steps) ==
    /\ metrics_out_queue' = metrics_out_queue
    /\ upd'.emitted = upd'.opt_steps
    /\ upd'.opt_steps = prior_opt_steps
    /\ backprop_count' = backprop_count
    /\ warnings' = warnings + 1
    /\ pc' \in {"update", "updated", "accumulate"}

EvalsOf(q) == SelectSeq(q, LAMBDA c : c[1] = "eval")

\* C10: with a validator, every checkpoint_save of train() is followed at
\* once by one ("eval", path) command with the path just written, so the
\* commands are in save order; without a validator nothing is enqueued; and
\* last_save = step_count after every save.
C10_CheckpointAnnounced ==
    /\ [](IF HasValidator
          THEN EvalsOf(write_to_eval)
                 = [i \in 1..Len(saved_paths) |-> <<"eval", saved_paths[i]>>]
          ELSE write_to_eval = <<>>)
    /\ [][Len(saved_paths') = Len(saved_paths) + 1
            => /\ last_save' = step_count'
               /\ pc = "save"
               /\ write_to_eval' =
                     IF HasValidator
                     THEN Append(write_to_eval, <<"eval", Last(saved_paths')>>)
                     ELSE write_to_eval]_vars
    /\ [][SameEngine /\ pc # "save" /\ pc' \notin {"done", "failed"}
            => write_to_eval' = write_to_eval]_vars

\* Two checkpoints have been written and announced, in this order.
C10_Witness ==
    /\ HasValidator
    /\ Len(saved_paths) = 2
    /\ saved_paths[1] # saved_paths[2]
    /\ write_to_eval = <<<<"eval", saved_paths[1]>>, <<"eval", saved_paths[2]>>>>
    /\ last_save = step_count

\* SaveCheckpoint ends the final iteration of a stage: train() returns next.
FinalIterationSave == pc = "save" /\ pc' = "loop" /\ ~LoopCondition'

\* C11 as stated: with save_interval configured, checkpoint_save is called in
\* the final training iteration of every stage, the iteration after which
\* train() returns.
C11_SavedAtStageEnd ==
    [][FinalIterationSave /\ config.save_interval # None
         => Len(saved_paths') = Len(saved_paths) + 1]_vars

\* The validator acts on the command it has read.
ActStep == v_pc = "act" /\ v_pc' # "act"

\* C12 as stated: for every eval command the validator acts on, it runs the
\* evaluation, posts exactly one message tagged "valid_metrics" to the
\* parent's queue and returns to polling, with and without render_video.
C12_EvalPostsMetrics ==
    [][ActStep /\ command = "eval"
         => /\ Len(write_to_parent') = Len(write_to_parent) + 1
            /\ write_to_parent' =
                 Append(write_to_parent, Last(write_to_parent'))
            /\ Last(write_to_parent')[1] = "valid_metrics"
            /\ v_pc' = "poll"
            /\ v_exc' = NoneStr]_vars

\* C13: when the validator leaves its polling loop the queue is drained and
\* the command it acts on is the one most recently put; the commands put
\* before it and not yet acted on are never acted on; the parent only ever
\* appends to the queue, and never removes or merges commands.
C13_LatestCommandOnly ==
    /\ [](read_from_parent = SubSeq(sent, taken + 1, Len(sent)))
    /\ [][v_pc = "poll" /\ v_pc' = "act"
            => /\ read_from_parent = <<>>
               /\ taken = Len(sent)
               /\ <<command, data>> = sent[Len(sent)]
               /\ acted' = Append(acted, Len(sent))]_vars
    /\ [](\A i \in 1..Len(acted) :
             /\ acted[i] \in 1..taken
             /\ i > 1 => acted[i - 1] < acted[i])
    /\ [](v_pc = "act" => <<command, data>> = sent[Last(acted)])
    /\ [][ActStep => acted' = acted]_vars
    /\ [][sent' # sent
            => /\ sent' = Append(sent, Last(sent'))
               /\ read_from_parent' = Append(read_from_parent, Last(sent'))]_vars
    /\ [][read_from_parent' # read_from_parent
            => \/ sent' # sent
               \/ /\ read_from_parent # <<>>
                  /\ read_from_parent' = Tail(read_from_parent)
                  /\ v_pc = "poll"]_vars

\* Two eval commands were pending at one poll; the first was discarded and
\* only the second was evaluated.
C13_Witness ==
    /\ Len(sent) = 2
    /\ sent[1][1] = "eval"
    /\ sent[2][1] = "eval"
    /\ acted = <<2>>
    /\ write_to_parent = << <<"valid_metrics", <<RunEval(2, TRUE)[1], RunEval(2, TRUE)[2]>> >> >>
    /\ v_pc = "poll"

\* C14: on quit, exit and close the validator closes its resources and
\* terminates without posting; on a command other than eval, quit, exit and
\* close it raises NotImplementedError and posts nothing; with an empty queue
\* and no command read it keeps polling without acting; only an eval posts.
C14_CommandProtocol ==
    /\ [][ActStep /\ command \in {"quit", "exit", "close"}
            => /\ v_pc' = "exited"
               /\ v_is_closed'
               /\ v_exc' = NoneStr
               /\ write_to_parent' = write_to_parent]_vars
    /\ [][ActStep /\ command \notin {"eval", "quit", "exit", "close"}
            => /\ v_pc' = "raised"
               /\ v_exc' = "NotImplementedError"
               /\ ~v_is_closed'
               /\ write_to_parent' = write_to_parent]_vars
    /\ [][write_to_parent' # write_to_parent => ActStep /\ command = "eval"]_vars
    /\ [](v_pc = "act" => new_data /\ command # NoneStr)
    /\ [](v_pc = "poll" /\ ~new_data /\ read_from_parent = <<>>
            => /\ ENABLED ValidatorPoll
               /\ ~ENABLED ValidatorLoopExit
               /\ ~ENABLED ValidatorAct)
    /\ [][v_pc = "poll" /\ ~new_data /\ read_from_parent = <<>> /\ sent' = sent
            => validator_vars' = validator_vars]_vars
    /\ [][sent' = sent /\ v_pc \in {"exited", "raised"}
            => validator_vars' = validator_vars]_vars

\* An exit command has ended a validator that had answered one eval.
C14_Witness ==
    /\ v_pc = "exited"
    /\ v_is_closed
    /\ command = "exit"
    /\ Len(write_to_parent) = 1
    /\ acted = <<1, 2>>

\* ---------------------------------------------------------------- teardown

\* The counters run_pipeline advances at a stage boundary.
StageCounters == <<pipeline_stage, total_steps, total_updates>>

\* A step in which close() runs to its end.
CloseStep == ~is_closed /\ is_closed'

\* C15: close() attempts the worker pool, the validator process and the log
\* writer in this order, whichever of the three close operations raise: all
\* three are attempted, a resource is recorded as raised only if its close
\* operation raises, the validator is skipped only when there is none,
\* close() leaves the pending exception of run_pipeline as it was (it raises
\* nothing itself), and _is_closed is true once it has returned.
C15_CloseAllThree ==
    /\ [](is_closed =>
            /\ Len(close_log) = 3
            /\ \A i \in 1..3 :
                 /\ close_log[i][1] = Resources[i]
                 /\ close_log[i][2] \in {"raised", "closed", "absent"}
                 /\ close_log[i][2] = "raised" =>
                      Resources[i] \in config.close_raises
                 /\ Resources[i] \notin config.close_raises /\ i < 3 =>
                      close_log[i][2] = IF i = 1 \/ HasValidator
                                        THEN "closed" ELSE "absent")
    /\ [](pc \in {"done", "failed"} => is_closed)
    /\ [][CloseStep => /\ exc' = exc
                       /\ pc' = IF exc = NoneStr THEN "done" ELSE "failed"
                       /\ ~log_writer' \/ close_log'[3][2] = "raised"]_vars

\* close() has returned although closing the worker pool and the validator
\* raised, and the log writer was closed after them.
C15_Witness ==
    /\ is_closed
    /\ close_log[1] = <<"vector_tasks", "raised">>
    /\ close_log[2] = <<"eval_process", "raised">>
    /\ close_log[3] = <<"log_writer", "closed">>

\* C16: an exception raised in run_pipeline (by checkpoint loading, by the
\* run-id acquisition, by the stage assertion or by the training loop) is
\* followed by close() and then propagates unchanged to the caller; a run
\* that completes is closed too; and the steps that raise and tear down
\* leave pipeline_stage, total_steps and total_updates as they were, the
\* failing stage being the one pipeline_stage points at.
C16_TeardownThenReraise ==
    /\ [][pc # "raised" /\ pc' = "raised" =>
            /\ exc' # NoneStr
            /\ ~is_closed'
            /\ StageCounters' = StageCounters]_vars
    /\ [][pc = "raised" =>
            /\ pc' = "failed"
            /\ exc' = exc
            /\ is_closed'
            /\ StageCounters' = StageCounters]_vars
    /\ [](pc = "failed" => is_closed /\ exc # NoneStr)
    /\ [](pc = "done" => is_closed /\ exc = NoneStr)
    /\ [](pc = "failed" /\ exc = "EnvironmentError" =>
            pipeline_stage = stage_num - 1)

\* The environments raised in the second stage, after the first stage had
\* advanced the counters; the engine is closed and the exception is out.
C16_Witness ==
    /\ pc = "failed"
    /\ exc = "EnvironmentError"
    /\ pipeline_stage = 1
    /\ total_steps > 0
    /\ is_closed
    /\ HasValidator
    /\ write_to_eval # <<>>
    /\ Last(write_to_eval)[1] = "exit"

\* The step in which _acquire_unique_local_start_time_string raises.
TimeoutStep == pc = "loaded" /\ pc' = "raised"

\* C18: when the lock is not acquired in time, the Timeout is raised to
\* run_pipeline with local_start_time_str and .last_start_time_string as
\* they were and the log writer not opened; no stage is set up or trained
\* after it; close() runs and the Timeout reaches the caller.
C18_LockTimeout ==
    /\ [][TimeoutStep =>
            /\ exc' = "Timeout"
            /\ local_start_time_str' = local_start_time_str
            /\ last_start_time_string' = last_start_time_string
            /\ log_writer' = log_writer]_vars
    /\ [](exc = "Timeout" =>
            /\ pc \in {"raised", "failed"}
            /\ stage_num = None
            /\ num_rollouts = None
            /\ steps_in_rollout = None
            /\ ~log_writer)
    /\ [][exc = "Timeout" /\ pc = "raised" =>
            /\ pc' = "failed"
            /\ exc' = "Timeout"
            /\ is_closed'
            /\ close_log'[3] = <<"log_writer", "absent">>]_vars

\* The second run timed out on the lock: it failed with the Timeout, closed,
\* and the file still holds the run identifier of the first run.
C18_Witness ==
    /\ run = 2
    /\ pc = "failed"
    /\ exc = "Timeout"
    /\ is_closed
    /\ last_start_time_string = 1
    /\ local_start_time_str = Resumed.dict.local_start_time_str

\* ---------------------------------------------------------- run identifier

\* The engines between reading the file and releasing the lock.
InSection == {e \in Engines : l_pc[e] \in {"read", "candidate", "write",
                                           "release"}}

\* C17: whatever the interleaving of the engines and the clock, at most one
\* engine is between reading .last_start_time_string and releasing the lock,
\* that engine holds the lock, and two engines that have been assigned a
\* run identifier have different ones; an identifier differs from what the
\* file held when the first engine came.
C17_UniqueRunId ==
    /\ Cardinality(InSection) <= 1
    /\ \A e \in InSection : lock_holder = e
    /\ \A e1, e2 \in Engines :
         /\ e1 # e2
         /\ start_time_strs[e1] # None
         /\ start_time_strs[e2] # None
         => start_time_strs[e1] # start_time_strs[e2]
    /\ \A e \in Engines :
         l_pc[e] \in {"release", "returned"} =>
           /\ start_time_strs[e] = candidate_str[e]
           /\ start_time_strs[e] # last_start_time_string_list[e]

\* Every engine has returned; the first found the start time of this very
\* second in the file, so each had to wait for the clock.
C17_Witness ==
    /\ \A e \in Engines : l_pc[e] = "returned"
    /\ \E e \in Engines : last_start_time_string_list[e] = 0
    /\ \A e \in Engines : start_time_strs[e] > 0
    /\ lock_holder = None

\* ------------------------------------------------------------ paused workers

\* The positions, counted from 0, of the observations that are None.
NonePositions == {i - 1 : i \in {j \in 1..Len(observations) :
                                   observations[j] = None}}

\* The seq s is strictly increasing (dir = 1) or decreasing (dir = -1).
Monotone(s, dir) ==
    \A i \in 1..(Len(s) - 1) : dir * s[i] < dir * s[i + 1]

\* The elements of the seq s.
Range(s) == {s[i] : i \in 1..Len(s)}

\* C19: after remove_paused_and_batch, npaused is the number of None
\* observations, keep lists the positions of the others in ascending order,
\* the two add up to the length of the list, pause_at was called once per
\* None position in descending order, and the pool is left with exactly the
\* workers that returned an observation, in their old order; of 4 workers
\* with one None, 1 is paused and 3 are kept.
C19_RemovePaused ==
    p_pc \in {"initialized", "stepped"} /\ before # <<>> =>
      /\ npaused = Cardinality(NonePositions)
      /\ Monotone(keep, 1)
      /\ Range(keep) = {i - 1 : i \in 1..Len(observations)} \ NonePositions
      /\ npaused + Len(keep) = Len(observations)
      /\ Monotone(pause_calls, -1)
      /\ Range(pause_calls) = NonePositions
      /\ Len(pause_calls) = npaused
      /\ Len(vector_tasks) = Len(keep)
      /\ \A j \in 1..Len(keep) :
           /\ vector_tasks[j] = before[keep[j] + 1]
           /\ vector_tasks[j] = observations[keep[j] + 1]
           /\ batch[j] = observations[keep[j] + 1]
      /\ Range(before) \ Range(vector_tasks) =
           {before[p + 1] : p \in NonePositions}
      /\ Len(observations) = 4 /\ Cardinality(NonePositions) = 1 =>
           npaused = 1 /\ Len(keep) = 3

\* Of 4 workers the second returned None: it alone was paused, and the
\* fourth worker moved to position 2 of keep.
C19_Witness ==
    /\ before = <<1, 2, 3, 4>>
    /\ observations = <<1, None, 3, 4>>
    /\ npaused = 1
    /\ keep = <<0, 2, 3>>
    /\ pause_calls = <<1>>
    /\ vector_tasks = <<1, 3, 4>>

\* The worker an entry of the inserted array called name belongs to.
WorkerOf(name, entry) == IF name = "masks" THEN entry[1] ELSE entry

\* The arguments of rollouts.insert that have one entry per process.
PerProcess == {"observations", "memory", "actions", "action_log_probs",
               "value_preds", "rewards", "masks"}

\* C20: every per-process argument of rollouts.insert has one entry per kept
\* worker, entry j belonging to the worker at position keep[j] of the pool
\* that was stepped, the storage was reshaped to these workers, and the
\* mask inserted for a worker is the one computed from its own done flag.
C20_InsertKept ==
    p_pc = "stepped" =>
      /\ DOMAIN inserted = PerProcess
      /\ Len(rollouts_procs) = Len(keep)
      /\ \A name \in PerProcess :
           /\ Len(inserted[name]) = Len(keep)
           /\ \A j \in 1..Len(keep) :
                /\ WorkerOf(name, inserted[name][j]) = before[keep[j] + 1]
                /\ WorkerOf(name, inserted[name][j]) = rollouts_procs[j]
      /\ \A j \in 1..Len(keep) :
           inserted.masks[j][2] = IF step_dones[keep[j] + 1] THEN 0 ELSE 1

\* A second step after a pause: workers 1 and 4 are left of 4, worker 1
\* pauses and worker 4, done, is the only one inserted.
C20_Witness ==
    /\ before = <<1, 4>>
    /\ observations = <<None, 4>>
    /\ keep = <<1>>
    /\ rollouts_procs = <<4>>
    /\ p_pc = "stepped"
    /\ inserted.actions = <<4>>
    /\ inserted.masks = <<<<4, 0>>>>

\* -------------------------------------------------------- episode counter

\* The workers of the step that reported done and returned an observation.
DoneNotPaused ==
    {i \in 1..Len(observations) : step_dones[i] /\ observations[i] # None}

\* C21: a step adds to episode_count the number of workers that reported
\* done and were not paused in the step (returned an observation), and the
\* mask inserted for a kept worker is 0 if it reported done and 1 otherwise.
C21_EpisodesCounted ==
    p_pc = "stepped" =>
      /\ sum_dones = Cardinality(DoneNotPaused)
      /\ \A j \in 1..Len(keep) :
           inserted.masks[j][2] = IF step_dones[keep[j] + 1] THEN 0 ELSE 1

\* ------------------------------------------------------- process dimension

\* C22: whenever the workers can be stepped, the storage has one column per
\* unpaused worker, in pool order; a step sends as many actions as the
\* storage had columns, which is the number of unpaused workers that were
\* stepped; a step brings no worker back and adds no column; and in train
\* mode no action ever adds a worker.
C22_ProcessDimension ==
    /\ [](p_pc # "init" => rollouts_procs = vector_tasks)
    /\ [](p_pc = "stepped" => actions_sent = Len(before))
    /\ [][p_pc' = "stepped" =>
            /\ before' = vector_tasks
            /\ Range(vector_tasks') \subseteq Range(vector_tasks)
            /\ Len(rollouts_procs') <= Len(rollouts_procs)
            /\ Len(rollouts_procs') = Len(rollouts_procs) - npaused']_vars
    /\ [][mode = "train" =>
            /\ Range(vector_tasks') \subseteq Range(vector_tasks)
            /\ Len(vector_tasks') <= Len(vector_tasks)]_vars

\* Train mode, 4 workers: one was paused by a step, a second by the next
\* initialize_rollouts on a fresh storage, and the step after it sent 2
\* actions.
C22_Witness ==
    /\ mode = "train"
    /\ num_processes = 4
    /\ p_pc = "stepped"
    /\ actions_sent = 2
    /\ Len(before) = 2
    /\ rollouts_procs = vector_tasks

\* ----------------------------------------------------------- metrics queue

\* C23: a call of a reader on a queue nobody writes to any more makes
\* finitely many polls.  Every poll but an empty one takes a message off the
\* queue, and an empty poll that does not leave the loop is repeated for
\* ever, so the polls are finitely many exactly when there is at most one
\* more than there were messages.
C23_FinitelyManyPolls ==
    m_pc # "idle" => polls <= Len(m_queue0) + 1

\* The messages accumulate_data_from_metrics_out_queue has taken off the
\* queue so far.
Drained == SubSeq(m_queue0, 1, Len(m_queue0) - Len(m_queue))

\* The ids of the entries of a list.
Ids(list) == {list[i][1] : i \in 1..Len(list)}

\* The lists of accumulate_data_from_metrics_out_queue, by name.
ListOf(name) ==
    CASE name = "train_metrics" -> train_metrics
      [] name = "losses" -> losses
      [] name = "teachers" -> teachers
      [] name = "valid_test_metrics" -> valid_test_metrics
      [] name = "unknown" -> unknown

Classes == {"train_metrics", "losses", "teachers", "valid_test_metrics",
            "unknown"}

C24_NameRoundTrip ==
    n_pc = "parsed" =>
      /\ parsed_steps = [value |-> name_fields.steps, raised |-> NoneStr]
      /\ checkpoint_start_time =
           [value |-> <<Tok("rid", name_fields.time)>>, raised |-> NoneStr]

\* C25: the path get_checkpoint_path looks at first for the file name of a
\* saved checkpoint is the path checkpoint_save wrote, and the directory
\* get_checkpoint_files lists for the run-id is the directory the file is in.
C25_FoundWhereSaved ==
    n_pc = "parsed" =>
      /\ expected_path = model_path
      /\ files_folder = SubSeq(model_path, 1, Len(model_path) - 1)

\* ------------------------------------------------------ checkpoint lookup

\* The counters of a freshly constructed engine.
FreshCounters ==
    /\ total_updates = 0
    /\ pipeline_stage = 0
    /\ rollout_count = 0
    /\ backprop_count = 0
    /\ step_count = 0
    /\ total_steps = 0
    /\ episode_count = 0
    /\ off_policy_epochs = None

\* C26: the checkpoint lookup of a restarted run returns the expected path
\* when a file exists there, else the match of the search when there is
\* exactly one; with no match or several it raises RuntimeError, the
\* exception reaches the caller of run_pipeline, and at that point no
\* counter of the engine has been modified and no stage has been started.
C26_LookupOutcome ==
    /\ [][run = 2 /\ pc = "start" =>
            /\ config.expected_exists =>
                 pc' = "loaded" /\ checkpoint_path' = "expected_path"
            /\ ~config.expected_exists /\ config.num_ckpts = 1 =>
                 pc' = "loaded" /\ checkpoint_path' = "ckpts[0]"
            /\ ~config.expected_exists /\ config.num_ckpts # 1 =>
                 /\ pc' = "raised"
                 /\ exc' = "RuntimeError"
                 /\ checkpoint_path' = NoneStr]_vars
    /\ [][exc' = "RuntimeError" =>
            /\ run' = 2
            /\ pc' \in {"raised", "failed"}
            /\ FreshCounters'
            /\ stage_num' = None
            /\ local_start_time_str' = None
            /\ ~log_writer']_vars
    /\ [][exc = "RuntimeError" /\ pc = "raised" =>
            pc' = "failed" /\ exc' = "RuntimeError"]_vars

C26_Witness ==
    /\ run = 2
    /\ pc = "failed"
    /\ exc = "RuntimeError"
    /\ ~config.expected_exists
    /\ config.num_ckpts = 2
    /\ ckpt[1].dict.step_count > 0

\* ------------------------------------------------------- evaluation loads

\* C27: in valid and test mode checkpoint_load restores the model and the
\* four step counters from the dictionary and nothing else: the stage and
\* update counters, run-id, seed and extra_tag keep their values, optimizer
\* and scheduler are not touched, and neither the trainer nor the workers
\* are seeded.
C27_EvalLoadRestoresSteps ==
    loads > 0 /\ self_after.mode \in {"valid", "test"} =>
      /\ self_after.actor_critic = loaded_ckpt.model_state_dict
      /\ self_after.step_count = loaded_ckpt.step_count
      /\ self_after.total_steps = loaded_ckpt.total_steps
      /\ self_after.episode_count =
           IF loaded_ckpt.episode_count = Absent
           THEN 0 ELSE loaded_ckpt.episode_count
      /\ self_after.off_policy_epochs =
           IF loaded_ckpt.off_policy_epochs = Absent
           THEN 0 ELSE loaded_ckpt.off_policy_epochs
      /\ self_after.pipeline_stage = self_before.pipeline_stage
      /\ self_after.rollout_count = self_before.rollout_count
      /\ self_after.backprop_count = self_before.backprop_count
      /\ self_after.total_updates = self_before.total_updates
      /\ self_after.local_start_time_str = self_before.local_start_time_str
      /\ self_after.seed = self_before.seed
      /\ self_after.extra_tag = self_before.extra_tag
      /\ self_after.optimizer = self_before.optimizer
      /\ self_after.lr_scheduler = self_before.lr_scheduler
      /\ self_after.set_seed_calls = <<>>
      /\ self_after.set_seeds_calls = <<>>
      /\ self_after.mode = self_before.mode
      /\ self_after.num_processes = self_before.num_processes

C27_Witness ==
    /\ loads = 2
    /\ self_after.mode = "valid"
    /\ self_before.step_count = 1
    /\ self_after.step_count = 2
    /\ loaded_ckpt.trainer_seed = 1
    /\ loaded_ckpt.extra_tag = "ckpt_tag"
    /\ self_after.seed = 2
    /\ self_after.extra_tag = ""
    /\ self_after.episode_count = 0

\* ------------------------------------------------- end of an iteration

\* The iteration is at line 1017 and the drain is due.
DrainDue ==
    /\ pc = "accumulate"
    /\ \/ step_count - last_metrics_accumulate_steps
             >= config.metric_accumulate_interval
       \/ rollout_count = num_rollouts

\* C28: at the end of an iteration the metrics queue is drained and the
\* early-stopping criterion evaluated exactly when the step interval has
\* elapsed or the last rollout of the stage is done, and then
\* last_metrics_accumulate_steps is step_count; so the last iteration of a
\* stage that uses up its budget drains, a stage left before its budget is
\* used up was left in an iteration that drained, and in an iteration the
\* drain comes before the checkpoint save and the save before the scene
\* advance.
C28_DrainThenSaveThenAdvance ==
    /\ [][DrainDue =>
            /\ pc' = "save"
            /\ metrics_out_queue' = <<>>
            /\ early_stopping_criterion_met' =
                 (config.es_threshold # None
                  /\ step_count >= config.es_threshold)
            /\ last_metrics_accumulate_steps' = step_count]_vars
    /\ [][pc = "accumulate" /\ ~DrainDue =>
            /\ pc' = "save"
            /\ metrics_out_queue' = metrics_out_queue
            /\ early_stopping_criterion_met' = early_stopping_criterion_met
            /\ last_metrics_accumulate_steps' =
                 last_metrics_accumulate_steps]_vars
    /\ [][pc = "accumulate" /\ rollout_count = num_rollouts =>
            /\ metrics_out_queue' = <<>>
            /\ last_metrics_accumulate_steps' = step_count]_vars
    /\ [][early_stopping_criterion_met' /\ ~early_stopping_criterion_met =>
            DrainDue]_vars
    /\ [][pc = "loop" /\ pc' = "stage" /\ rollout_count < num_rollouts =>
            /\ early_stopping_criterion_met
            /\ last_metrics_accumulate_steps = step_count]_vars
    /\ [][saved_paths' # saved_paths /\ run' = run =>
            /\ pc = "save"
            /\ pc' = "advance"
            /\ next_task_calls' = next_task_calls
            /\ metrics_out_queue' = metrics_out_queue
            /\ last_metrics_accumulate_steps' =
                 last_metrics_accumulate_steps]_vars
    /\ [][pc = "save" => pc' = "advance"]_vars
    /\ [][next_task_calls' # next_task_calls =>
            /\ pc = "advance"
            /\ pc' = "loop"
            /\ saved_paths' = saved_paths
            /\ metrics_out_queue' = metrics_out_queue
            /\ last_metrics_accumulate_steps' =
                 last_metrics_accumulate_steps]_vars
    /\ [][pc = "advance" => pc' = "loop"]_vars

C28_Witness ==
    /\ pc = "loop"
    /\ config.metric_accumulate_interval = 2
    /\ config.advance_scene_rollout_period = 2
    /\ rollout_count = 2
    /\ rollout_count < num_rollouts
    /\ early_stopping_criterion_met
    /\ last_metrics_accumulate_steps = step_count
    /\ last_save = step_count
    /\ next_task_calls = <<<<0, 2>>>>

\* -------------------------------------------------- off-policy memory

\* C30: the first loss of an update that built or rebuilt the data iterator
\* is given the empty memory; after setup_stage the memory is empty; and
\* in an update that took its batch from the iterator it had, the first loss
\* is given the memory the last loss of the update before returned, each
\* later loss the memory returned by the loss before it.
C30_MemoryClearedOnRebuild ==
    /\ o_updates = 0 => offpolicy_memory = {}
    /\ [][o_updates' = o_updates + 1 =>
            /\ built' = (data_iterator = None \/ data_iterator = 0)
            /\ built' => loss_calls'[1].memory = {}
            /\ ~built' =>
                 /\ loss_calls # <<>>
                 /\ loss_calls'[1].memory = loss_calls[NumLosses].returned
            /\ \A i \in 2..NumLosses :
                 loss_calls'[i].memory = loss_calls'[i - 1].returned
            /\ offpolicy_memory' = loss_calls'[NumLosses].returned]_vars
    /\ [][o_stages' # o_stages =>
            offpolicy_memory' = {} /\ data_iterator' = None]_vars
    /\ [][o_updates' = 0 => offpolicy_memory' = {}]_vars

C30_Witness ==
    /\ o_stages = 2
    /\ o_updates = 3
    /\ data_len = 2
    /\ built
    /\ loss_calls[1].memory = {}
    /\ loss_calls[1].returned = {1}
    /\ offpolicy_memory = {1}

\* ------------------------------------------------------------ total_updates

\* C40: total_updates does not change while a stage runs, and the end of
\* a stage adds to it the rollouts the stage has performed (rollout_count),
\* whether the stage used up its budget or was stopped early.
C40_TotalUpdatesCountsRollouts ==
    /\ [][InTrain /\ ~BoundaryStep /\ SameEngine =>
            total_updates' = total_updates]_vars
    /\ [][BoundaryStep =>
            total_updates' = total_updates + rollout_count]_vars

\* ------------------------------------------------------- off_policy_epochs

\* C31: off_policy_epochs is None until the data iterator is first built,
\* which makes it 0; after that it changes only when an exhausted iterator
\* is rebuilt, by exactly 1, in later stages and in a resumed run as well;
\* the checkpoint load restores the saved value.
C31_EpochsCountExhaustions ==
    /\ [][SameEngine /\ ~LoadStep /\ off_policy_epochs' # off_policy_epochs =>
            /\ pc = "offpolicy"
            /\ \/ /\ off_policy_epochs = None
                  /\ offpolicy_data_iterator = None
                  /\ off_policy_epochs' = 0
               \/ /\ off_policy_epochs # None
                  /\ offpolicy_data_iterator = 0
                  /\ off_policy_epochs' = off_policy_epochs + 1]_vars
    /\ [][pc = "offpolicy" /\ offpolicy_data_iterator = 0 =>
            off_policy_epochs' = off_policy_epochs + 1]_vars
    /\ [][LoadStep => off_policy_epochs' = Saved.off_policy_epochs]_vars

\* --------------------------------------------------------------- step_count

\* The budget of rollout_count finished rollouts.
StepsOfRollouts == rollout_count * steps_in_rollout * num_processes

\* At the end of an iteration of train() step_count is within the budget of
\* the rollouts done, and meets it when no worker has been paused.
WithinBudget ==
    mode = "train" /\ step = 0 =>
      /\ step_count <= StepsOfRollouts
      /\ StepsOfRollouts <= max_stage_steps
      /\ Len(vector_tasks) = num_processes => step_count = StepsOfRollouts

\* C39: in train mode a collect_rollout_step adds to step_count the number
\* of actions it sends, one for each active worker, and nothing else
\* changes step_count; at the end of every training iteration
\* step_count <= rollout_count * steps_in_rollout * num_processes
\* <= max_stage_steps, with equality on the left when no worker was paused;
\* in valid mode collect_rollout_step leaves step_count as it is.
C39_StepCountCountsActions ==
    /\ WithinBudget
    /\ [][WithinBudget']_vars
    /\ [][p_pc' = "stepped" /\ mode = "train" =>
            /\ actions_sent' = Len(vector_tasks)
            /\ step_count' = step_count + actions_sent']_vars
    /\ [][p_pc' = "stepped" /\ mode # "train" =>
            step_count' = step_count]_vars
    /\ [][p_pc' # "stepped" => step_count' = step_count]_vars

C39_Witness ==
    /\ mode = "train"
    /\ num_processes = 3
    /\ steps_in_rollout = 1
    /\ rollout_count = 2
    /\ step = 0
    /\ step_count = 4
    /\ Len(vector_tasks) = 1
    /\ actions_sent = 1

\* ------------------------------------------------- the checkpoints of a run

\* How often file f is in the list returned.
TimesReturned(f) ==
    Cardinality({i \in 1..Len(listing.returned) : listing.returned[i] = f})

\* C38: without a file name, get_checkpoint_files returns, of the n sorted
\* files of a non-empty directory, a strictly ascending list that holds the
\* first file, the last file once, and besides the last exactly the files
\* whose index is a multiple of skip_checkpoints + 1; all files when
\* skip_checkpoints is 0; the empty list for an empty directory; and with
\* a file name, that name alone.
C38_CheckpointFilesReturned ==
    listing.pc = "returned" =>
      LET r == listing.returned
          n == Len(listing.files)
          k == listing.skip_checkpoints
      IN IF listing.checkpoint_file_name # None
         THEN r = <<listing.checkpoint_file_name>>
         ELSE /\ n = 0 => r = <<>>
              /\ k = 0 => r = listing.files
              /\ \A i \in 1..(Len(r) - 1) : r[i] < r[i + 1]
              /\ n > 0 =>
                   /\ TimesReturned(listing.files[1]) = 1
                   /\ TimesReturned(listing.files[n]) = 1
                   /\ r[1] = listing.files[1]
                   /\ r[Len(r)] = listing.files[n]
                   /\ \A j \in 1..(n - 1) :
                        TimesReturned(listing.files[j]) =
                          IF (j - 1) % (k + 1) = 0 THEN 1 ELSE 0

C38_Witness ==
    /\ listing.pc = "returned"
    /\ listing.checkpoint_file_name = None
    /\ Len(listing.files) = 7
    /\ listing.skip_checkpoints = 2
    /\ listing.returned = <<1, 4, 7>>

\* ------------------------------------- the hyperparameters of the stages

SetupStages == 2
MaxTrainRollouts == 1

\* What a field can hold at one layer: no attribute or key at all, the
\* value None, or a value (1 at the stage, 2 at the pipeline, 3 in
\* machine_params, so that the layer a value came from can be told).
LayerValues(v) == {Absent, None, v}

IsSet(v) == v # Absent /\ v # None

\* _stage_value: the stage's attribute unless missing or None, else the
\* training pipeline's unless missing or None, else the entry of
\* machine_params when the key is there, else None or a RuntimeError.
StageValue(stage_v, pipeline_v, machine_v, allow_none) ==
    IF IsSet(stage_v) THEN [raised |-> FALSE, value |-> stage_v]
    ELSE IF IsSet(pipeline_v) THEN [raised |-> FALSE, value |-> pipeline_v]
    ELSE IF machine_v # Absent THEN [raised |-> FALSE, value |-> machine_v]
    ELSE IF allow_none THEN [raised |-> FALSE, value |-> None]
    ELSE [raised |-> TRUE, value |-> None]

Layers == [num_steps : LayerValues(1), early_stopping_criterion : LayerValues(1)]

\* The head of run_pipeline's loop body: the values of the stage are
\* resolved, a missing required one ending the run with a RuntimeError.
RunPipelineSetup ==
    /\ stage_setup.pc = "setup"
    /\ LET st == stage_setup.stages[stage_setup.stage_num]
           steps == StageValue(st.num_steps, stage_setup.pipeline.num_steps,
                               stage_setup.machine_params.num_steps, FALSE)
           crit == StageValue(st.early_stopping_criterion,
                              stage_setup.pipeline.early_stopping_criterion,
                              stage_setup.machine_params.early_stopping_criterion,
                              TRUE)
       IN stage_setup' =
            IF steps.raised
            THEN [stage_setup EXCEPT !.pc = "raised"]
            ELSE [stage_setup EXCEPT !.pc = "train",
                                     !.steps_in_rollout = steps.value,
                                     !.early_stopping_criterion = crit.value]
    /\ UNCHANGED not_setup_vars

\* The rest of the loop body: train() collects the rollouts of the stage
\* and the stage pointer moves on.
RunPipelineTrain ==
    /\ stage_setup.pc = "train"
    /\ \E r \in 0..MaxTrainRollouts :
         stage_setup' =
           [stage_setup EXCEPT
              !.rollouts = @ + r,
              !.stage_num = @ + 1,
              !.pc = IF stage_setup.stage_num = Len(stage_setup.stages)
                     THEN "done" ELSE "setup"]
    /\ UNCHANGED not_setup_vars

SetupSpecInit ==
    /\ EngineIdle
    /\ render_video = FALSE
    /\ ValidatorInit
    /\ last_start_time_file = None
    /\ LockInit
    /\ vector_tasks = <<1>>
    /\ mode = "train"
    /\ PauseInit
    /\ MetricsIdle
    /\ NameIdle
    /\ LoadIdle
    /\ SceneIdle
    /\ OffpolicyIdle
    /\ DrainIdle
    /\ CtorIdle
    /\ ClosesIdle
    /\ FilesIdle
    /\ \E stages \in [1..SetupStages -> Layers],
          pipeline \in [num_steps : LayerValues(2),
                        early_stopping_criterion : LayerValues(2)],
          machine \in [num_steps : LayerValues(3),
                       early_stopping_criterion : LayerValues(3)] :
         stage_setup = [pc |-> "setup",
                        stages |-> stages,
                        pipeline |-> pipeline,
                        machine_params |-> machine,
                        stage_num |-> 1,
                        rollouts |-> 0,
                        steps_in_rollout |-> None,
                        early_stopping_criterion |-> None]

SetupNext == RunPipelineSetup \/ RunPipelineTrain

SetupSpec == SetupSpecInit /\ [][SetupNext]_vars

\* The first of the three layers that holds a value, None when none does.
FirstSet(stage_v, pipeline_v, machine_v) ==
    IF IsSet(stage_v) THEN stage_v
    ELSE IF IsSet(pipeline_v) THEN pipeline_v
    ELSE IF IsSet(machine_v) THEN machine_v
    ELSE None

\* The values the stage being trained should have been given.
ResolvedOf(field) ==
    FirstSet(stage_setup.stages[stage_setup.stage_num][field],
             stage_setup.pipeline[field], stage_setup.machine_params[field])

\* C32: the values of a stage are the first set one of the stage's, the
\* pipeline's and machine_params' (None when an optional one is set
\* nowhere), a stage is trained only with its required value set, and a
\* RuntimeError for a missing required value of any stage is raised before
\* any rollout of the run is collected.
C32_ConfigurationErrorsAtSetup ==
    /\ stage_setup.pc = "train" =>
         /\ stage_setup.steps_in_rollout = ResolvedOf("num_steps")
         /\ stage_setup.steps_in_rollout # None
         /\ stage_setup.early_stopping_criterion =
              ResolvedOf("early_stopping_criterion")
    /\ stage_setup.pc = "raised" =>
         /\ ResolvedOf("num_steps") = None
         /\ stage_setup.rollouts = 0

\* ------------------------------------------------------------ close, again

\* The exit commands on the validator's command queue.
Sentinels(q) == Cardinality({i \in 1..Len(q) : q[i][1] = "exit"})

\* Resource r was closed by the close() of this engine.
ClosedOnce(r) ==
    \E i \in 1..Len(close_log) : close_log[i] = <<r, "closed">>

MaxValidProcesses == 1
MaxTrainingProcesses == 1

\* Mode strings: the three modes in several spellings and an unknown one.
ModeStrings == {"train", "Train", "TRAIN", "valid", "Valid", "test", "Test",
                "debug"}

\* str.lower on the mode strings.
Lower(m) ==
    CASE m \in {"train", "Train", "TRAIN"} -> "train"
      [] m \in {"valid", "Valid"} -> "valid"
      [] m \in {"test", "Test"} -> "test"
      [] OTHER -> m

\* __init__, lines 126-289, as far as the mode decides: the assertions on
\* the mode and on max_training_processes, the optimizer and the scheduler
\* (created under `if mode == "train"`, the mode as it was passed), and
\* the validator process (started under `if self.mode == "train"`).
NewEngine(m, a) ==
    LET self_mode == Lower(m)
        train == m = "train"
    IN IF self_mode \notin {"train", "valid", "test"}
       THEN [raised |-> "AssertionError", mode |-> NoneStr, optimizer |-> FALSE,
             lr_scheduler |-> FALSE, eval_process |-> FALSE]
       ELSE IF ~(a.max_training_processes = None \/ a.max_training_processes >= 1)
       THEN [raised |-> "AssertionError", mode |-> NoneStr, optimizer |-> FALSE,
             lr_scheduler |-> FALSE, eval_process |-> FALSE]
       ELSE IF /\ self_mode = "train"
               /\ a.valid_nprocesses > 0
               /\ a.single_process_training
       THEN [raised |-> "NotImplementedError", mode |-> NoneStr,
             optimizer |-> FALSE, lr_scheduler |-> FALSE,
             eval_process |-> FALSE]
       ELSE [raised |-> NoneStr,
             mode |-> self_mode,
             optimizer |-> train,
             lr_scheduler |-> (train /\ a.lr_scheduler_builder),
             eval_process |-> (self_mode = "train" /\ a.valid_nprocesses > 0)]

\* The next of the two engines is constructed.
EngineConstruct ==
    /\ construction.pc = "args"
    /\ LET i == Len(construction.engines) + 1
       IN construction' =
            [construction EXCEPT
               !.engines = Append(@, NewEngine(construction.modes[i],
                                               construction.args)),
               !.pc = IF i = 2 THEN "constructed" ELSE "args"]
    /\ UNCHANGED not_ctor_vars

CtorSpecInit ==
    /\ EngineIdle
    /\ render_video = FALSE
    /\ ValidatorInit
    /\ last_start_time_file = None
    /\ LockInit
    /\ vector_tasks = <<1>>
    /\ mode = "train"
    /\ PauseInit
    /\ MetricsIdle
    /\ NameIdle
    /\ LoadIdle
    /\ SceneIdle
    /\ OffpolicyIdle
    /\ DrainIdle
    /\ FilesIdle
    /\ SetupIdle
    /\ ClosesIdle
    /\ \E modes \in ModeStrings \X ModeStrings,
          args \in [max_training_processes : {None} \cup 0..MaxTrainingProcesses,
                    lr_scheduler_builder : BOOLEAN,
                    valid_nprocesses : 0..MaxValidProcesses,
                    single_process_training : BOOLEAN] :
         construction = [pc |-> "args", modes |-> modes, args |-> args,
                         engines |-> <<>>]

CtorNext == EngineConstruct

CtorSpec == CtorSpecInit /\ [][CtorNext]_vars

\* C36: two constructions whose mode strings differ in letter case only
\* give the same engine: the same mode, optimizer, scheduler and validator
\* process, or the same error.
C36_ModeCaseInsensitive ==
    (/\ construction.pc = "constructed"
     /\ Lower(construction.modes[1]) = Lower(construction.modes[2]))
    => construction.engines[1] = construction.engines[2]

\* ------------------------------------------ validation results, end to end

MaxScalars == 2

\* `"render_video" in self.machine_params and
\* self.machine_params["render_video"]`, the entry being missing (Absent),
\* 0 (False) or 1 (True).
Renders(entry) == entry = 1

\* process_checkpoints, lines 1446-1457: the message posted for the
\* scalars of an evaluation, each scalar k being (value, steps). The three
\* values of run_eval are unpacked into three names with render_video and
\* into two without.
ValidMetricsMessage(entry, n, steps) ==
    LET scalars == [k \in 1..n |-> <<k, steps>>]
        names == IF Renders(entry) THEN 3 ELSE 2
    IN IF Len(RunEval(steps, Renders(entry))) # names
       THEN [raised |-> "ValueError", message |-> <<>>]
       ELSE [raised |-> NoneStr,
             message |->
               IF Renders(entry)
               THEN <<"valid_metrics", [shape |-> "pair", scalars |-> scalars,
                                        render |-> "video"]>>
               ELSE <<"valid_metrics", [shape |-> "dict", scalars |-> scalars,
                                        render |-> NoneStr]>>]

\* accumulate_data_from_metrics_out_queue, lines 528-537: info is unpacked
\* into (scalars, render) with render_video and taken as the scalars
\* without. Unpacking a dict gives its keys, and fails unless there are
\* two; scalars.items() fails on a key and on a tuple.
Unpack(entry, info) ==
    IF Renders(entry)
    THEN IF info.shape = "pair"
         THEN [raised |-> NoneStr, scalars |-> info.scalars,
               render |-> info.render]
         ELSE IF Len(info.scalars) = 2
         THEN [raised |-> "AttributeError", scalars |-> <<>>, render |-> NoneStr]
         ELSE [raised |-> "ValueError", scalars |-> <<>>, render |-> NoneStr]
    ELSE IF info.shape = "pair"
         THEN [raised |-> "AttributeError", scalars |-> <<>>, render |-> NoneStr]
         ELSE [raised |-> NoneStr, scalars |-> info.scalars, render |-> NoneStr]

\* accumulate_data_from_metrics_out_queue, lines 538-561: one entry
\* (name, steps, value) for each scalar, in the order of the names, and one
\* for the video when there is one.
ValidTestMetrics(u) ==
    [k \in 1..Len(u.scalars) |-> <<k, u.scalars[k][2], u.scalars[k][1]>>]
      \o (IF u.render # NoneStr
          THEN <<<<"agent_view", u.scalars[1][2], u.render>>>>
          ELSE <<>>)

\* accumulate_data_from_metrics_out_queue, lines 601-606: the dictionary
\* returned.
AccumulatedData(u) ==
    [key \in {"train_scalar_tracker", "train_metrics", "valid_test_metrics",
              "valid_test_messages"} |->
       IF key = "valid_test_metrics" THEN ValidTestMetrics(u) ELSE <<>>]

\* dict.get(key, default).
GetOr(d, key, default) == IF key \in DOMAIN d THEN d[key] ELSE default

\* train, lines 1031-1034: the test_valid_metrics argument of the
\* early-stopping criterion.
CriterionMetrics(d) == GetOr(d, "test_valid_metrics", <<>>)

\* The validator evaluates a checkpoint and posts the result, or ends with
\* the error of the unpacking.
ValidatorPost ==
    /\ drain.pc = "eval"
    /\ LET m == ValidMetricsMessage(drain.valid_render_video, drain.n,
                                    drain.steps)
       IN drain' =
            IF m.raised # NoneStr
            THEN [drain EXCEPT !.pc = "validator raised", !.raised = m.raised]
            ELSE [drain EXCEPT !.pc = "posted", !.message = m.message]
    /\ UNCHANGED not_drain_vars

\* train, lines 1017-1035: the drain of the metrics queue, which decodes
\* the message, and the call of the early-stopping criterion; an error of
\* the decoding leaves train().
TrainDrain ==
    /\ drain.pc = "posted"
    /\ LET u == Unpack(drain.train_render_video, drain.message[2])
           d == AccumulatedData(u)
       IN drain' =
            IF u.raised # NoneStr
            THEN [drain EXCEPT !.pc = "raised", !.raised = u.raised]
            ELSE [drain EXCEPT !.pc = "drained",
                               !.decoded = [scalars |-> u.scalars,
                                            render |-> u.render],
                               !.accumulated = d["valid_test_metrics"],
                               !.criterion_metrics = CriterionMetrics(d)]
    /\ UNCHANGED not_drain_vars

DrainSpecInit ==
    /\ EngineIdle
    /\ render_video = FALSE
    /\ ValidatorInit
    /\ last_start_time_file = None
    /\ LockInit
    /\ vector_tasks = <<1>>
    /\ mode = "train"
    /\ PauseInit
    /\ MetricsIdle
    /\ NameIdle
    /\ LoadIdle
    /\ SceneIdle
    /\ OffpolicyIdle
    /\ FilesIdle
    /\ SetupIdle
    /\ ClosesIdle
    /\ CtorIdle
    /\ \E v \in {Absent, 0, 1}, t \in {Absent, 0, 1}, n \in 1..MaxScalars,
          steps \in 0..MaxCkptSteps :
         drain = [pc |-> "eval",
                  valid_render_video |-> v,
                  train_render_video |-> t,
                  n |-> n,
                  steps |-> steps,
                  message |-> <<>>,
                  raised |-> NoneStr,
                  decoded |-> <<>>,
                  accumulated |-> <<>>,
                  criterion_metrics |-> <<>>]

DrainNext == ValidatorPost \/ TrainDrain

DrainSpec == DrainSpecInit /\ [][DrainNext]_vars

\* C33: whatever the render_video entries of the validation and of the
\* training machine_params, the drain decodes a valid_metrics message
\* without an error, into the scalars and the video the validator put in.
C33_PayloadShapeAgrees ==
    /\ drain.pc # "raised"
    /\ drain.pc = "drained" =>
         /\ drain.decoded.scalars = drain.message[2].scalars
         /\ drain.decoded.render = drain.message[2].render

\* C34: the early-stopping criterion is given the validation metrics the
\* drain of the same iteration collected.
C34_CriterionGetsDrainedMetrics ==
    drain.pc = "drained" => drain.criterion_metrics = drain.accumulated

\* ------------------------------------------ the validator at the shutdown

\* The valid_metrics message of the checkpoint of eval command i is on the
\* parent's queue.
MetricsPosted(i) ==
    \E j \in 1..Len(write_to_parent) :
       <<write_to_parent[j]>> = EvalBranch(i, render_video).put

\* C35: when the validator terminates on the exit command, the checkpoint
\* of an eval command that was put just before the exit command, and was
\* not evaluated yet when the exit command was put, has been evaluated and
\* its valid_metrics posted.
C35_NewestCheckpointEvaluated ==
    v_pc = "exited" =>
      \A k \in 2..Len(sent) :
         (/\ k = Last(acted)
          /\ sent[k] = <<"exit", None>>
          /\ sent[k - 1][1] = "eval")
         => MetricsPosted(k - 1)

====
